---- MODULE Spec2Model ----
(***************************************************************************)
(* Model of the collision and placement engine of the 3d-render            *)
(* repository: my-app/components/collision-detector.ts (classes            *)
(* SpatialHash and CollisionDetector).                                     *)
(*                                                                         *)
(* Numbers.  World coordinates are fixed-point integers in thousandths of  *)
(* a world unit (Unit == 1000), so that the constants of the code (0.05,   *)
(* 0.1, 0.3, 0.5, 0.8, cell size 2) are exact.  Times are integer          *)
(* milliseconds.  Math.floor(a / b) is a \div b (floor division, b > 0).   *)
(*                                                                         *)
(* Absent values (null / undefined) are the empty tuple None, a present    *)
(* value v is Some(v) == <<v>>; an absent position is None as well.        *)
(***************************************************************************)
EXTENDS Integers, Sequences, FiniteSets, TLC

VARIABLES
  spatialHash,          \* CollisionDetector.spatialHash: [cellSize, grid, objectCells]
  indexedBox,           \* observer: the box last given to insert, per indexed id
  backgroundMesh,       \* None or Some(mesh)
  backgroundBounds,     \* None or Some(Box3)
  cachedFloorHeight,    \* None or Some(y)
  floorHeightGrid,      \* Map grid key -> y
  raycasterFar,         \* raycaster.far: None is Infinity
  nextPlacementOffset,  \* number
  furnitureObjects,     \* Map id -> Box3
  dirtyObjects,         \* Set of ids
  collisionCache,       \* Map id -> boolean
  lastCheckTime,        \* number (ms)
  now,                  \* the clock read by performance.now()
  ret,                  \* observer: the last call and what it returned
  prevCheck,            \* observer: per id, the previous checkCollision call since
                        \*   the last register/unregister (None when there is none)
  invalidators,         \* observer: per id A, None until checkCollision first computes
                        \*   a result for A, then Some(the ids whose change since A's
                        \*   latest computed result ought to have invalidated it)
  cacheOrigin,          \* observer: per id in collisionCache, the time its entry was
                        \*   computed and whether setBackgroundMesh ran since
  stackedSpots,         \* observer: the (x, z) the stacking fallback of
                        \*   findValidPosition returned since the last setBackgroundMesh
  history,              \* useHistory of the page: [past, present, future,
                        \*   isUndoRedoAction], each state a list of furniture items
  component             \* the mounted FurnitureObject of the item (None when there
                        \*   is none): its group position, the position prop last
                        \*   applied, its refs and the drag in progress

backgroundVars == <<backgroundMesh, backgroundBounds, cachedFloorHeight,
                    floorHeightGrid, raycasterFar>>
registryVars == <<spatialHash, furnitureObjects, dirtyObjects, collisionCache>>
throttleVars == <<lastCheckTime, now>>
observerVars == <<prevCheck, invalidators>>

vars == <<spatialHash, indexedBox, backgroundMesh, backgroundBounds, cachedFloorHeight,
          floorHeightGrid, raycasterFar, nextPlacementOffset, furnitureObjects,
          dirtyObjects, collisionCache, lastCheckTime, now, ret, prevCheck, invalidators,
          cacheOrigin, stackedSpots, history, component>>

-----------------------------------------------------------------------------
(* Bounds and inputs *)

Unit == 1000
MaxTicks == 2
TickMs == 8
HashMaxX == 1
HashMaxZ == 1
MaxOffset == 6

\* Furniture ids (strings in the code); NoId stands for an omitted excludeId.
Ids == {1, 2}
NoId == 0

None == <<>>
Some(v) == <<v>>

\* useHistory<FurnitureItem[]>([]) before anything is added, with the
\* default maxHistory
maxHistory == 50
NewHistory ==
  [past |-> <<>>, present |-> <<>>, future |-> <<>>, isUndoRedoAction |-> FALSE,
   maxHistory |-> maxHistory]

Box(x0, y0, z0, x1, y1, z1) == [min |-> <<x0, y0, z0>>, max |-> <<x1, y1, z1>>]

\* non-degenerate: min <= max on every axis
NonDegenerate(b) == \A k \in 1..3 : b.min[k] <= b.max[k]

\* Boxes registered for furniture in the registry specification.
FurnitureBoxes ==
  { Box(0, 0, 0, 1000, 1000, 1000),
    Box(500, 0, 500, 1500, 1000, 1500),
    Box(1000, 0, 0, 2000, 1000, 1000),
    Box(0, 2000, 0, 1000, 3000, 1000),
    Box(-3000, 0, -3000, -2500, 1000, -2500) }

\* Boxes used against the stand-alone index: every x and z interval over a
\* lattice of half-unit spacing around the origin, negative and positive.
HashXs == { k * Unit : k \in (0 - HashMaxX)..HashMaxX }
HashZs == { k * Unit : k \in 0..HashMaxZ }
HashBoxes ==
  { Box(x0, 0, z0, x1, Unit, z1) :
      <<x0, x1, z0, z1>> \in
        { q \in HashXs \X HashXs \X HashZs \X HashZs : q[1] <= q[2] /\ q[3] <= q[4] } }

CellSizes == { Unit, 2 * Unit, 3 * Unit }

-----------------------------------------------------------------------------
(* class SpatialHash *)

\* three.js Box3.intersectsBox as called by the detector: closed intervals
\* on all three axes (boxes that only touch do intersect).
intersectsBox(a, b) ==
  ~ \E k \in 1..3 : b.max[k] < a.min[k] \/ b.min[k] > a.max[k]

\* Faulty variant of getCellsForBox: only the cells of the four corners are listed
getCellsForBoxCorners(cellSize, box) ==
  { <<x, z>> : x \in {box.min[1] \div cellSize, box.max[1] \div cellSize},
               z \in {box.min[3] \div cellSize, box.max[3] \div cellSize} }

getCellsForBox(cellSize, box) ==
  LET minCellX == box.min[1] \div cellSize
      maxCellX == box.max[1] \div cellSize
      minCellZ == box.min[3] \div cellSize
      maxCellZ == box.max[3] \div cellSize
  IN  { <<x, z>> : x \in minCellX..maxCellX, z \in minCellZ..maxCellZ }

\* The grid keeps a bucket only while it is non-empty: the code leaves empty
\* Sets behind, which no method distinguishes from absent ones.
DropEmpty(grid) ==
  LET keep == { c \in DOMAIN grid : grid[c] # {} }
  IN  [c \in keep |-> grid[c]]

\* Faulty variant of remove: the id is left in its buckets
removeNothing(h, id) == h

remove(h, id) ==
  IF id \in DOMAIN h.objectCells
  THEN [h EXCEPT
          !.grid = DropEmpty([c \in DOMAIN h.grid |->
                                IF c \in h.objectCells[id] THEN h.grid[c] \ {id}
                                                           ELSE h.grid[c]]),
          !.objectCells = [i \in DOMAIN h.objectCells \ {id} |-> h.objectCells[i]]]
  ELSE h

\* Faulty variant of insert: the prior registration of the id is not removed
insertKeepsOld(h, id, box) ==
  LET cells == getCellsForBox(h.cellSize, box)
      old == DOMAIN h.grid
  IN  [h EXCEPT
         !.objectCells = [i \in DOMAIN h.objectCells \cup {id} |->
                            IF i = id THEN cells ELSE h.objectCells[i]],
         !.grid = [c \in old \cup cells |->
                     IF c \in old THEN (IF c \in cells THEN h.grid[c] \cup {id}
                                                       ELSE h.grid[c])
                                  ELSE {id}]]

insert(h, id, box) ==
  LET h1 == remove(h, id)
      cells == getCellsForBox(h.cellSize, box)
      old == DOMAIN h1.grid
  IN  [h1 EXCEPT
         !.objectCells = [i \in DOMAIN h1.objectCells \cup {id} |->
                            IF i = id THEN cells ELSE h1.objectCells[i]],
         !.grid = [c \in old \cup cells |->
                     IF c \in old THEN (IF c \in cells THEN h1.grid[c] \cup {id}
                                                       ELSE h1.grid[c])
                                  ELSE {id}]]

\* Faulty variant of query: excludeId is ignored
queryNoExclude(h, box, excludeId) ==
  UNION { h.grid[c] : c \in getCellsForBox(h.cellSize, box) \cap DOMAIN h.grid }

query(h, box, excludeId) ==
  LET cells == getCellsForBox(h.cellSize, box) \cap DOMAIN h.grid
  IN  { id \in UNION { h.grid[c] : c \in cells } : id # excludeId }

EmptyMap == [k \in {} |-> {}]

\* Faulty variant of clear: the cells recorded per id are kept
clearKeepsCells(h) == [h EXCEPT !.grid = EmptyMap]

clear(h) == [h EXCEPT !.grid = EmptyMap, !.objectCells = EmptyMap]

NewSpatialHash(cellSize) ==
  [cellSize |-> cellSize, grid |-> EmptyMap, objectCells |-> EmptyMap]

-----------------------------------------------------------------------------
(* class CollisionDetector: registry, dirty set, cache and throttle *)

throttleMs == 16

MapSet(m, k, v) == [i \in DOMAIN m \cup {k} |-> IF i = k THEN v ELSE m[i]]
MapDelete(m, ks) == [i \in DOMAIN m \ ks |-> m[i]]

\* Faulty variant of markDirty: the id's own cache entry is kept
markDirtyKeepsOwn(objects, h, dirty, cache, id) ==
  LET nearbyIds == IF id \in DOMAIN objects THEN query(h, objects[id], id) ELSE {}
  IN  [dirtyObjects |-> dirty \cup {id},
       collisionCache |-> MapDelete(cache, nearbyIds)]

\* markDirty(id), run on the registry and index it is given; returns the new
\* dirty set and cache.
markDirty(objects, h, dirty, cache, id) ==
  LET nearbyIds == IF id \in DOMAIN objects THEN query(h, objects[id], id) ELSE {}
  IN  [dirtyObjects |-> dirty \cup {id},
       collisionCache |-> MapDelete(cache, {id} \cup nearbyIds)]

checkFurnitureCollisionOptimized(objects, h, currentFurnitureId, furnitureBox) ==
  \E id \in query(h, furnitureBox, currentFurnitureId) :
     id \in DOMAIN objects /\ intersectsBox(furnitureBox, objects[id])

\* The ids whose cached result ought to be dropped when id's box goes from
\* oldBox to newBox (either may be None): id itself, always; and, when the
\* box is removed or replaced by a different one, every registered id whose
\* cell range overlaps the cells of the old or of the new box.
CellsOf(h, optBox) == IF optBox = None THEN {} ELSE getCellsForBox(h.cellSize, optBox[1])
ShouldInvalidate(h, id, oldBox, newBox) ==
  {id} \cup
  IF oldBox # None /\ oldBox # newBox
  THEN { a \in DOMAIN h.objectCells \ {id} :
           h.objectCells[a] \cap (CellsOf(h, oldBox) \cup CellsOf(h, newBox)) # {} }
  ELSE {}

Invalidated(inv, hit, id) ==
  IF inv # None /\ hit THEN Some(inv[1] \cup {id}) ELSE inv

StoredBox(id) == IF id \in DOMAIN furnitureObjects THEN Some(furnitureObjects[id]) ELSE None

RegisterFurniture(id, box) ==
  LET objects == MapSet(furnitureObjects, id, box)
      h == insert(spatialHash, id, box)
      d == markDirty(objects, h, dirtyObjects, collisionCache, id)
      stale == ShouldInvalidate(spatialHash, id, StoredBox(id), Some(box))
  IN  /\ furnitureObjects' = objects
      /\ spatialHash' = h
      /\ dirtyObjects' = d.dirtyObjects
      /\ collisionCache' = d.collisionCache
      /\ ret' = [op |-> "registerFurniture", id |-> id, box |-> box,
                 moved |-> CellsOf(spatialHash, StoredBox(id))
                             \ getCellsForBox(spatialHash.cellSize, box) # {}]
      /\ prevCheck' = [a \in Ids |-> None]
      /\ invalidators' = [a \in Ids |-> Invalidated(invalidators[a], a \in stale, id)]
      /\ cacheOrigin' = [a \in DOMAIN d.collisionCache |-> cacheOrigin[a]]
      /\ UNCHANGED <<indexedBox, backgroundVars, nextPlacementOffset, throttleVars,
                     stackedSpots, history, component>>

\* Faulty variant of unregisterFurniture: the cached result of the id is kept
UnregisterFurnitureKeepsCache(id) ==
  LET stale == ShouldInvalidate(spatialHash, id, StoredBox(id), None)
  IN  /\ furnitureObjects' = MapDelete(furnitureObjects, {id})
      /\ spatialHash' = remove(spatialHash, id)
      /\ collisionCache' = collisionCache
      /\ dirtyObjects' = dirtyObjects \ {id}
      /\ ret' = [op |-> "unregisterFurniture", id |-> id,
                 known |-> id \in DOMAIN furnitureObjects,
                 cached |-> id \in DOMAIN collisionCache]
      /\ prevCheck' = [a \in Ids |-> None]
      /\ invalidators' = [a \in Ids |-> Invalidated(invalidators[a], a \in stale, id)]
      /\ cacheOrigin' = cacheOrigin
      /\ UNCHANGED <<indexedBox, backgroundVars, nextPlacementOffset, throttleVars,
                     stackedSpots, history, component>>

UnregisterFurniture(id) ==
  LET stale == ShouldInvalidate(spatialHash, id, StoredBox(id), None)
  IN  /\ furnitureObjects' = MapDelete(furnitureObjects, {id})
      /\ spatialHash' = remove(spatialHash, id)
      /\ collisionCache' = MapDelete(collisionCache, {id})
      /\ dirtyObjects' = dirtyObjects \ {id}
      /\ ret' = [op |-> "unregisterFurniture", id |-> id,
                 known |-> id \in DOMAIN furnitureObjects,
                 cached |-> id \in DOMAIN collisionCache]
      /\ prevCheck' = [a \in Ids |-> None]
      /\ invalidators' = [a \in Ids |-> Invalidated(invalidators[a], a \in stale, id)]
      /\ cacheOrigin' = MapDelete(cacheOrigin, {id})
      /\ UNCHANGED <<indexedBox, backgroundVars, nextPlacementOffset, throttleVars,
                     stackedSpots, history, component>>

\* Faulty variant of checkCollision: a computed result is not stored in the cache
checkCollisionNoStore(objects, h, cache, last, t, furnitureId, furnitureBox) ==
  IF t - last < throttleMs /\ furnitureId \in DOMAIN cache
  THEN [result |-> cache[furnitureId], cached |-> TRUE,
        collisionCache |-> cache, lastCheckTime |-> last]
  ELSE [result |-> checkFurnitureCollisionOptimized(objects, h, furnitureId, furnitureBox),
        cached |-> FALSE, collisionCache |-> cache, lastCheckTime |-> t]

\* checkCollision: the value returned, whether it came from the cache, and
\* the cache and lastCheckTime it leaves.
checkCollision(objects, h, cache, last, t, furnitureId, furnitureBox) ==
  IF t - last < throttleMs /\ furnitureId \in DOMAIN cache
  THEN [result |-> cache[furnitureId], cached |-> TRUE,
        collisionCache |-> cache, lastCheckTime |-> last]
  ELSE LET result == checkFurnitureCollisionOptimized(objects, h, furnitureId, furnitureBox)
       IN  [result |-> result, cached |-> FALSE,
            collisionCache |-> MapSet(cache, furnitureId, result),
            lastCheckTime |-> t]

CheckCollision(id, box) ==
  LET c == checkCollision(furnitureObjects, spatialHash, collisionCache,
                          lastCheckTime, now, id, box)
  IN  /\ collisionCache' = c.collisionCache
      /\ lastCheckTime' = c.lastCheckTime
      /\ ret' = [op |-> "checkCollision", id |-> id, box |-> box,
                 result |-> c.result, cached |-> c.cached, stale |-> invalidators[id]]
      /\ prevCheck' = [prevCheck EXCEPT ![id] = Some([time |-> now, result |-> c.result])]
      /\ invalidators' = IF c.cached THEN invalidators
                         ELSE [invalidators EXCEPT ![id] = Some({})]
      /\ cacheOrigin' =
           IF c.cached THEN cacheOrigin
           ELSE [a \in DOMAIN c.collisionCache |->
                   IF a = id THEN [time |-> now, stale |-> FALSE] ELSE cacheOrigin[a]]
      /\ UNCHANGED <<spatialHash, indexedBox, backgroundVars, nextPlacementOffset,
                     furnitureObjects, dirtyObjects, now, stackedSpots, history, component>>

\* performance.now() is monotonic; time passes between calls.
Tick ==
  /\ now + TickMs <= MaxTicks * TickMs
  /\ now' = now + TickMs
  /\ ret' = [op |-> "tick"]
  /\ UNCHANGED <<indexedBox, backgroundVars, nextPlacementOffset, registryVars,
                 lastCheckTime, observerVars, cacheOrigin,
                 stackedSpots, history, component>>

Init ==
  /\ spatialHash = NewSpatialHash(2 * Unit)
  /\ indexedBox = EmptyMap
  /\ backgroundMesh = None
  /\ backgroundBounds = None
  /\ cachedFloorHeight = None
  /\ floorHeightGrid = EmptyMap
  /\ raycasterFar = None
  /\ nextPlacementOffset = 0
  /\ furnitureObjects = EmptyMap
  /\ dirtyObjects = {}
  /\ collisionCache = EmptyMap
  /\ lastCheckTime = 0
  /\ now = 0
  /\ ret = [op |-> "new"]
  /\ prevCheck = [a \in Ids |-> None]
  /\ invalidators = [a \in Ids |-> None]
  /\ cacheOrigin = EmptyMap
  /\ stackedSpots = {}
  /\ history = NewHistory
  /\ component = None

Next ==
  \/ \E id \in Ids, box \in FurnitureBoxes : RegisterFurniture(id, box)
  \/ \E id \in Ids : UnregisterFurniture(id)
  \/ \E id \in Ids, box \in FurnitureBoxes : CheckCollision(id, box)
  \/ Tick

Spec == Init /\ [][Next]_vars

\* The registry on its own: three boxes, two of them sharing a cell and one
\* in a cell of its own.
RegistryBoxes ==
  { Box(0, 0, 0, 1000, 1000, 1000),
    Box(1000, 0, 0, 2000, 1000, 1000),
    Box(-3000, 0, -3000, -2500, 1000, -2500) }

NextRegistry ==
  \/ \E id \in Ids, box \in RegistryBoxes : RegisterFurniture(id, box)
  \/ \E id \in Ids : UnregisterFurniture(id)
  \/ \E id \in Ids, box \in RegistryBoxes : CheckCollision(id, box)
  \/ Tick

SpecRegistry == Init /\ [][NextRegistry]_vars

-----------------------------------------------------------------------------
(* The spatial index on its own, for every cell size *)

HashInsert(id, box) ==
  /\ spatialHash' = insert(spatialHash, id, box)
  /\ indexedBox' = MapSet(indexedBox, id, box)
  /\ ret' = [op |-> "insert", id |-> id, box |-> box]
  /\ UNCHANGED <<backgroundVars, nextPlacementOffset, furnitureObjects, dirtyObjects,
                 collisionCache, throttleVars, observerVars, cacheOrigin,
                 stackedSpots, history, component>>

HashRemove(id) ==
  /\ spatialHash' = remove(spatialHash, id)
  /\ indexedBox' = MapDelete(indexedBox, {id})
  /\ ret' = [op |-> "remove", id |-> id,
             known |-> id \in DOMAIN spatialHash.objectCells]
  /\ UNCHANGED <<backgroundVars, nextPlacementOffset, furnitureObjects, dirtyObjects,
                 collisionCache, throttleVars, observerVars, cacheOrigin,
                 stackedSpots, history, component>>

HashClear ==
  /\ spatialHash' = clear(spatialHash)
  /\ indexedBox' = EmptyMap
  /\ ret' = [op |-> "clear"]
  /\ UNCHANGED <<backgroundVars, nextPlacementOffset, furnitureObjects, dirtyObjects,
                 collisionCache, throttleVars, observerVars, cacheOrigin,
                 stackedSpots, history, component>>

InitHash ==
  /\ \E cs \in CellSizes : spatialHash = NewSpatialHash(cs)
  /\ indexedBox = EmptyMap
  /\ backgroundMesh = None
  /\ backgroundBounds = None
  /\ cachedFloorHeight = None
  /\ floorHeightGrid = EmptyMap
  /\ raycasterFar = None
  /\ nextPlacementOffset = 0
  /\ furnitureObjects = EmptyMap
  /\ dirtyObjects = {}
  /\ collisionCache = EmptyMap
  /\ lastCheckTime = 0
  /\ now = 0
  /\ ret = [op |-> "new"]
  /\ prevCheck = [a \in Ids |-> None]
  /\ invalidators = [a \in Ids |-> None]
  /\ cacheOrigin = EmptyMap
  /\ stackedSpots = {}
  /\ history = NewHistory
  /\ component = None

NextHash ==
  \/ \E id \in Ids, box \in HashBoxes : HashInsert(id, box)
  \/ \E id \in Ids : HashRemove(id)
  \/ HashClear

SpecHash == InitHash /\ [][NextHash]_vars

-----------------------------------------------------------------------------
(* Registry and index *)

\* A query box that covers all occupied space.
FullSpaceBox == Box(0 - 8 * Unit, 0 - 8 * Unit, 0 - 8 * Unit, 8 * Unit, 8 * Unit, 8 * Unit)

\* C1: after any sequence of registerFurniture and unregisterFurniture calls
\* with non-degenerate boxes, the ids stored in the registry are exactly the
\* ids a full-space query of the spatial index returns.
C1_RegistryIndexSync ==
  DOMAIN furnitureObjects = query(spatialHash, FullSpaceBox, NoId)

\* an id has been unregistered while another one stays registered and indexed
C1_Witness ==
  /\ ret.op = "unregisterFurniture"
  /\ \E id \in DOMAIN furnitureObjects :
        id # ret.id /\ NonDegenerate(furnitureObjects[id])
                    /\ id \in query(spatialHash, FullSpaceBox, NoId)

\* closed-interval intersection of the (x, z) projections
IntersectsXZ(a, b) ==
  ~ \E k \in {1, 3} : b.max[k] < a.min[k] \/ b.min[k] > a.max[k]

\* C2: the index never produces a false negative: every indexed id whose box
\* meets the query box in the (x, z) projection is returned by query, unless
\* it is the excluded id; for every cell size and for negative coordinates.
C2_NoFalseNegative ==
  \A b \in DOMAIN indexedBox, a \in HashBoxes, ex \in Ids \cup {NoId} :
     IntersectsXZ(a, indexedBox[b]) /\ b # ex => b \in query(spatialHash, a, ex)

\* two ids indexed under the largest cell size, one of them on negative
\* coordinates over several cells, the two meeting in the projection
C2_Witness ==
  /\ spatialHash.cellSize = 3 * Unit
  /\ \E b, c \in DOMAIN indexedBox :
        /\ b # c
        /\ indexedBox[b].min[1] < 0
        /\ Cardinality(spatialHash.objectCells[b]) > 1
        /\ IntersectsXZ(indexedBox[b], indexedBox[c])
        /\ b \in query(spatialHash, indexedBox[c], c)

\* the reference: some other registered id's stored box intersects the box
BruteForceCollision(id, box) ==
  \E other \in DOMAIN furnitureObjects \ {id} : intersectsBox(box, furnitureObjects[other])

\* C3: whenever checkCollision recomputes, its result is that of scanning the
\* whole registry for another id whose stored box intersects the box.
C3_RecomputeIsBruteForce ==
  (ret.op = "checkCollision" /\ ~ret.cached)
     => (ret.result <=> BruteForceCollision(ret.id, ret.box))

\* a recomputed "no collision" for a box that intersects the id's own stored
\* box, while the other id is a candidate of the index
C3_Witness ==
  /\ ret.op = "checkCollision" /\ ~ret.cached /\ ~ret.result
  /\ ret.id \in DOMAIN furnitureObjects
  /\ intersectsBox(ret.box, furnitureObjects[ret.id])
  /\ query(spatialHash, ret.box, ret.id) # {}

-----------------------------------------------------------------------------
(* Throttle and cache *)

IsCheck(r) == r.op = "checkCollision"

\* C8 (as stated): two checkCollision calls for the same id less than 16 ms
\* apart, with no register/unregister between them, return the same boolean,
\* whatever box the second call is given.
C8_SameWithinWindow ==
  [][ (/\ IsCheck(ret')
       /\ prevCheck[ret'.id] # None
       /\ now - prevCheck[ret'.id][1].time < throttleMs)
      => ret'.result = prevCheck[ret'.id][1].result ]_vars

\* C8 (amended): two checkCollision calls for the same id with no
\* register/unregister between them return the same boolean, whatever box the
\* second call is given, when the second call is made less than 16 ms after
\* the latest recomputation by checkCollision (lastCheckTime).
C8_SameWithinThrottle ==
  [][ (/\ IsCheck(ret')
       /\ prevCheck[ret'.id] # None
       /\ now - lastCheckTime < throttleMs)
      => ret'.result = prevCheck[ret'.id][1].result ]_vars

\* a call answered from the cache, with nothing changed in the registry since
\* the result was computed, for a box whose fresh result would differ
C8_Witness ==
  /\ IsCheck(ret) /\ ret.cached
  /\ ret.stale = Some({})
  /\ ret.result # BruteForceCollision(ret.id, ret.box)

\* C9: the throttle is never applied across a register or unregister of the
\* same id: a checkCollision(id, .) answered from the cache returns a result
\* computed after the latest registerFurniture(id, .) / unregisterFurniture(id).
C9_NoCacheAcrossOwnChange ==
  (IsCheck(ret) /\ ret.cached) => (ret.stale # None /\ ret.id \notin ret.stale[1])

\* inside the throttle window, a call recomputes because its id was
\* registered or unregistered after its previous result was computed
C9_Witness ==
  /\ IsCheck(ret) /\ ~ret.cached
  /\ ret.stale # None /\ ret.id \in ret.stale[1]
  /\ now < throttleMs
  /\ ret.id \in DOMAIN collisionCache

\* C10: a checkCollision(A, .) never returns a cached result computed before
\* a neighbour B (one whose box overlapped A's cell range) was unregistered
\* or re-registered with a different box.
C10_NeighbourChangeObserved ==
  (IsCheck(ret) /\ ret.cached) => (ret.stale # None /\ ret.stale[1] \ {ret.id} = {})

\* C11: checkCollision(id, .) returns a cached boolean only if that boolean
\* was computed for id less than 16 ms earlier, whatever other ids were
\* checked in between.
C11_StalenessBounded ==
  (IsCheck(ret) /\ ret.cached) => now - cacheOrigin[ret.id].time < throttleMs

-----------------------------------------------------------------------------
(* Background surface and floor sampling *)

\* A background mesh: its world bounds (Box3.setFromObject), whether its
\* geometry has an index buffer, the Y of its vertices (None when it has no
\* position attribute) and the surface a vertical ray can hit, given as
\* horizontal patches [x0, x1, z0, z1, y].
Patch(x0, x1, z0, z1, y) == [x0 |-> x0, x1 |-> x1, z0 |-> z0, z1 |-> z1, y |-> y]

RoomMesh ==
  [bounds |-> Box(-5000, 0, -5000, 5000, 3000, 5000), hasIndex |-> TRUE,
   vertexY |-> Some(<<0, 3000, 1000>>),
   patches |-> { Patch(-5000, 5000, -5000, 5000, 0),
                 Patch(3000, 5000, 3000, 5000, 1000) }]

CloudMesh ==
  [bounds |-> Box(0, 0, 0, 10000, 3000, 10000), hasIndex |-> FALSE,
   vertexY |-> Some(<<500, 0, 3000>>),
   patches |-> {}]

Meshes == { RoomMesh, CloudMesh }

gridCellSize == 1000

SetMax(S) == CHOOSE m \in S : \A o \in S : o <= m
SetMin(S) == CHOOSE m \in S : \A o \in S : m <= o
Ceil(a, b) == 0 - ((0 - a) \div b)

getCenter(box) == [k \in 1..3 |-> (box.min[k] + box.max[k]) \div 2]
getSize(box) == [k \in 1..3 |-> box.max[k] - box.min[k]]
setFromCenterAndSize(center, size) ==
  [min |-> [k \in 1..3 |-> center[k] - size[k] \div 2],
   max |-> [k \in 1..3 |-> center[k] + size[k] \div 2]]

\* raycaster.intersectObject for a ray cast straight down from (x, originY, z)
\* with the given far (None: no limit): the Y of the surface points hit.
RayHits(mesh, x, originY, z, far) ==
  { q.y : q \in { q \in mesh.patches :
                    /\ q.x0 <= x /\ x <= q.x1 /\ q.z0 <= z /\ z <= q.z1
                    /\ q.y <= originY
                    /\ (far = None \/ originY - q.y <= far[1]) } }

SampleFar(bounds) == bounds.max[2] - bounds.min[2] + 20 * Unit

\* sampleFloorHeight: the nearest hit below a point 5 above the bounds
sampleFloorHeight(mesh, bounds, x, z) ==
  LET hits == RayHits(mesh, x, bounds.max[2] + 5 * Unit, z, Some(SampleFar(bounds)))
  IN  IF hits # {} THEN Some(SetMax(hits)) ELSE None

getGridKey(x, z) == <<x \div gridCellSize, z \div gridCellSize>>

buildFloorHeightGrid(mesh, bounds) ==
  LET cellSize == gridCellSize
      minX == (bounds.min[1] \div cellSize) * cellSize
      maxX == Ceil(bounds.max[1], cellSize) * cellSize
      minZ == (bounds.min[3] \div cellSize) * cellSize
      maxZ == Ceil(bounds.max[3], cellSize) * cellSize
      samples == { <<minX + i * cellSize, minZ + j * cellSize>> :
                     i \in 0..((maxX - minX) \div cellSize),
                     j \in 0..((maxZ - minZ) \div cellSize) }
      found == { q \in samples : sampleFloorHeight(mesh, bounds, q[1], q[2]) # None }
      keys == { getGridKey(q[1], q[2]) : q \in found }
  \* every sample lies on a cell corner, so a key names its sample
  IN  [k \in keys |->
         sampleFloorHeight(mesh, bounds, k[1] * cellSize, k[2] * cellSize)[1]]

\* heights.sort((a, b) => a - b)[index], index from 0: the value with at most
\* index values below it and more than index values not above it
SortedAt(grid, index) ==
  CHOOSE v \in { grid[k] : k \in DOMAIN grid } :
    /\ Cardinality({ k \in DOMAIN grid : grid[k] < v }) <= index
    /\ Cardinality({ k \in DOMAIN grid : grid[k] <= v }) > index

\* Faulty variant of calculateDefaultFloorHeight: the lowest sampled height
calculateDefaultFloorHeightLowest(grid, bounds) ==
  IF DOMAIN grid = {}
  THEN (IF bounds # None THEN Some(bounds[1].min[2]) ELSE None)
  ELSE Some(SortedAt(grid, 0))

calculateDefaultFloorHeight(grid, bounds) ==
  IF DOMAIN grid = {}
  THEN (IF bounds # None THEN Some(bounds[1].min[2]) ELSE None)
  ELSE LET floorIndex == Cardinality(DOMAIN grid) \div 10
       IN  Some(SortedAt(grid, floorIndex))

\* Faulty variant of findLowestVertexY: the Y of the first vertex
findLowestVertexYFirst(mesh) ==
  IF mesh.vertexY = None \/ mesh.vertexY[1] = <<>> THEN None
  ELSE Some(mesh.vertexY[1][1])

findLowestVertexY(mesh) ==
  IF mesh.vertexY = None \/ mesh.vertexY[1] = <<>> THEN None
  ELSE Some(SetMin({ mesh.vertexY[1][i] : i \in DOMAIN mesh.vertexY[1] }))

\* Faulty variant of SetBackgroundMesh: a faced surface without a sample has
\* its vertices scanned before the bounding box is used
SetBackgroundMeshScanFirst(mesh) ==
  LET bounds == mesh.bounds
      grid == IF mesh.hasIndex THEN buildFloorHeightGrid(mesh, bounds) ELSE floorHeightGrid
      height == IF mesh.hasIndex /\ DOMAIN grid # {}
                THEN calculateDefaultFloorHeight(grid, Some(bounds))
                ELSE findLowestVertexY(mesh)
  IN  /\ backgroundMesh' = Some(mesh)
      /\ backgroundBounds' = Some(bounds)
      /\ floorHeightGrid' = grid
      /\ raycasterFar' = IF mesh.hasIndex THEN Some(SampleFar(bounds)) ELSE raycasterFar
      /\ cachedFloorHeight' = IF height = None THEN Some(bounds.min[2]) ELSE height
      /\ ret' = [op |-> "setBackgroundMesh", again |-> backgroundMesh = Some(mesh)]
      /\ cacheOrigin' = [a \in DOMAIN cacheOrigin |-> [cacheOrigin[a] EXCEPT !.stale = TRUE]]
      /\ stackedSpots' = {}
      /\ UNCHANGED <<history, component>>
      /\ UNCHANGED <<indexedBox, nextPlacementOffset, registryVars, throttleVars,
                     observerVars>>

\* Faulty variant of setBackgroundMesh: a surface that is already the
\* background is not processed again, after the cached height was dropped
SetBackgroundMeshSkipSame(mesh) ==
  IF backgroundMesh = Some(mesh)
  THEN /\ cachedFloorHeight' = None
       /\ ret' = [op |-> "setBackgroundMesh", again |-> TRUE]
       /\ UNCHANGED <<backgroundMesh, backgroundBounds, floorHeightGrid, raycasterFar,
                      indexedBox, nextPlacementOffset, registryVars, throttleVars,
                      observerVars, cacheOrigin, stackedSpots, history, component>>
  ELSE SetBackgroundMeshScanFirst(mesh)

SetBackgroundMesh(mesh) ==
  LET bounds == mesh.bounds
      grid == IF mesh.hasIndex THEN buildFloorHeightGrid(mesh, bounds) ELSE floorHeightGrid
      height == IF mesh.hasIndex THEN calculateDefaultFloorHeight(grid, Some(bounds))
                ELSE findLowestVertexY(mesh)
  IN  /\ backgroundMesh' = Some(mesh)
      /\ backgroundBounds' = Some(bounds)
      /\ floorHeightGrid' = grid
      /\ raycasterFar' = IF mesh.hasIndex THEN Some(SampleFar(bounds)) ELSE raycasterFar
      /\ cachedFloorHeight' = IF height = None THEN Some(bounds.min[2]) ELSE height
      /\ ret' = [op |-> "setBackgroundMesh", again |-> backgroundMesh = Some(mesh)]
      /\ cacheOrigin' = [a \in DOMAIN cacheOrigin |-> [cacheOrigin[a] EXCEPT !.stale = TRUE]]
      /\ stackedSpots' = {}
      /\ UNCHANGED <<history, component>>
      /\ UNCHANGED <<indexedBox, nextPlacementOffset, registryVars, throttleVars,
                     observerVars>>

\* snapToFloor(position) on a set background: first hit of a ray cast down
\* from 10 above the position, with whatever far the raycaster was left with.
snapToFloor(mesh, far, position) ==
  LET hits == RayHits(mesh, position[1], position[2] + 10 * Unit, position[3], far)
  IN  IF hits # {} THEN Some(SetMax(hits)) ELSE None

-----------------------------------------------------------------------------
(* Background queries *)

\* Number.POSITIVE_INFINITY, the min of an empty Box3 (its max is -Infinity):
\* a value beyond every coordinate.
Infinity == 1000000 * Unit

\* Faces with a square hole around the sample point (1, 1), a pit at the
\* sample point (0, 0) and a raised block between sample points.
PitMesh ==
  [bounds |-> Box(0, -500, 0, 3000, 2000, 3000), hasIndex |-> TRUE,
   vertexY |-> Some(<<0, -500, 2000>>),
   patches |-> { Patch(0, 799, 0, 499, -500),
                 Patch(0, 799, 500, 3000, 0),
                 Patch(1201, 3000, 0, 3000, 0),
                 Patch(800, 1200, 0, 799, 0),
                 Patch(800, 1200, 1201, 3000, 0),
                 Patch(1400, 1600, 1400, 1600, 300) }]

\* A small faced surface, nine sample points, the one at (0, 0) in a dip.
NookMesh ==
  [bounds |-> Box(0, -300, 0, 2000, 1000, 2000), hasIndex |-> TRUE,
   vertexY |-> Some(<<0, -300, 1000>>),
   patches |-> { Patch(0, 499, 0, 499, -300),
                 Patch(0, 499, 500, 2000, 0),
                 Patch(500, 2000, 0, 2000, 0) }]

\* Faces that no downward ray meets (walls only), on a mesh placed one unit
\* up: the position attribute holds local Y 0.2 and 2.2, the world bounds
\* span 1.2 to 3.2.
WallsMesh ==
  [bounds |-> Box(0, 1200, 0, 2000, 3200, 2000), hasIndex |-> TRUE,
   vertexY |-> Some(<<200, 2200>>),
   patches |-> {}]

\* Point cloud with vertices at Y 0.2, 0.5 and 1.0 in bounds [0,0,0]x[10,3,10].
ScenarioCloud ==
  [bounds |-> Box(0, 0, 0, 10000, 3000, 10000), hasIndex |-> FALSE,
   vertexY |-> Some(<<200, 500, 1000>>),
   patches |-> {}]

\* A mesh whose geometry has no position attribute: Box3.setFromObject
\* leaves the box empty.
EmptyMesh ==
  [bounds |-> Box(Infinity, Infinity, Infinity,
                  0 - Infinity, 0 - Infinity, 0 - Infinity),
   hasIndex |-> FALSE, vertexY |-> None, patches |-> {}]

BackgroundMeshes ==
  { RoomMesh, CloudMesh, PitMesh, NookMesh, WallsMesh, ScenarioCloud, EmptyMesh }

\* Points asked of getFloorHeightAt.
FloorPoints ==
  { <<0, 0>>, <<1500, 1500>>, <<1100, 1100>>, <<4000, 4000>>, <<20000, 20000>> }

getFloorHeight(cached) == cached

getBackgroundBounds(bounds) == bounds

\* Faulty variant of getBackgroundCenter: the origin when no mesh is set
getBackgroundCenterOrigin(mesh, cached) ==
  IF mesh = None THEN Some(<<0, 0, 0>>)
  ELSE LET b == mesh[1].bounds
           box == IF cached # None THEN [b EXCEPT !.min[2] = cached[1]] ELSE b
       IN  Some(getCenter(box))

getBackgroundCenter(mesh, cached) ==
  IF mesh = None THEN None
  ELSE LET b == mesh[1].bounds
           box == IF cached # None THEN [b EXCEPT !.min[2] = cached[1]] ELSE b
       IN  Some(getCenter(box))

\* sampleFloorHeight as the detector calls it: null without a background
sampleFloorHeightAt(mesh, bounds, x, z) ==
  IF mesh = None \/ bounds = None THEN None
  ELSE sampleFloorHeight(mesh[1], bounds[1], x, z)

\* Faulty variant of getFloorHeightAt: the default is returned without sampling
getFloorHeightAtNoSample(mesh, bounds, grid, cached, x, z) ==
  LET key == getGridKey(x, z)
  IN  IF key \in DOMAIN grid
      THEN [result |-> Some(grid[key]), via |-> "grid"]
      ELSE [result |-> cached, via |-> "default"]

\* getFloorHeightAt: the value returned and the step that produced it
getFloorHeightAt(mesh, bounds, grid, cached, x, z) ==
  LET key == getGridKey(x, z)
      sampledHeight == sampleFloorHeightAt(mesh, bounds, x, z)
  IN  IF key \in DOMAIN grid
      THEN [result |-> Some(grid[key]), via |-> "grid"]
      ELSE IF sampledHeight # None
      THEN [result |-> sampledHeight, via |-> "sample"]
      ELSE [result |-> cached, via |-> "default"]

GetFloorHeight ==
  /\ ret' = [op |-> "getFloorHeight", result |-> getFloorHeight(cachedFloorHeight)]
  /\ UNCHANGED <<indexedBox, backgroundVars, nextPlacementOffset, registryVars,
                 throttleVars, observerVars, cacheOrigin,
                 stackedSpots, history, component>>

GetBackgroundBounds ==
  /\ ret' = [op |-> "getBackgroundBounds", result |-> getBackgroundBounds(backgroundBounds)]
  /\ UNCHANGED <<indexedBox, backgroundVars, nextPlacementOffset, registryVars,
                 throttleVars, observerVars, cacheOrigin,
                 stackedSpots, history, component>>

GetBackgroundCenter ==
  /\ ret' = [op |-> "getBackgroundCenter",
             result |-> getBackgroundCenter(backgroundMesh, cachedFloorHeight)]
  /\ UNCHANGED <<indexedBox, backgroundVars, nextPlacementOffset, registryVars,
                 throttleVars, observerVars, cacheOrigin,
                 stackedSpots, history, component>>

GetFloorHeightAt(x, z) ==
  LET r == getFloorHeightAt(backgroundMesh, backgroundBounds, floorHeightGrid,
                            cachedFloorHeight, x, z)
  IN  /\ ret' = [op |-> "getFloorHeightAt", x |-> x, z |-> z,
                 result |-> r.result, via |-> r.via,
                 again |-> (ret.op = "getFloorHeightAt" /\ ret.x = x /\ ret.z = z)]
      \* a grid miss runs sampleFloorHeight, which sets raycaster.far
      /\ raycasterFar' = IF r.via # "grid" /\ backgroundMesh # None /\ backgroundBounds # None
                         THEN Some(SampleFar(backgroundBounds[1]))
                         ELSE raycasterFar
      /\ UNCHANGED <<indexedBox, backgroundMesh, backgroundBounds, cachedFloorHeight,
                     floorHeightGrid, nextPlacementOffset, registryVars, throttleVars,
                     observerVars, cacheOrigin,
                 stackedSpots, history, component>>

NextBackground ==
  \/ \E mesh \in BackgroundMeshes : SetBackgroundMesh(mesh)
  \/ GetFloorHeight
  \/ GetBackgroundBounds
  \/ \E q \in FloorPoints : GetFloorHeightAt(q[1], q[2])

SpecBackground == Init /\ [][NextBackground]_vars

-----------------------------------------------------------------------------
(* Placement search *)

\* Math.cos / Math.sin at the angles the ring searches use, which are all
\* multiples of 1.5 degrees: u counts 1.5-degree steps (240 to the turn) and
\* the value is scaled by 100000.  Products are cut to the thousandth.
CosTable ==
  [u \in {0, 10, 12, 15, 20, 24, 30, 36, 40, 45, 48, 50, 60} |->
     CASE u = 0 -> 100000 [] u = 10 -> 96593 [] u = 12 -> 95106 [] u = 15 -> 92388
       [] u = 20 -> 86603 [] u = 24 -> 80902 [] u = 30 -> 70711 [] u = 36 -> 58779
       [] u = 40 -> 50000 [] u = 45 -> 38268 [] u = 48 -> 30902 [] u = 50 -> 25882
       [] u = 60 -> 0]

Cos(u) ==
  LET v == u % 240
  IN  IF v <= 60 THEN CosTable[v]
      ELSE IF v <= 120 THEN 0 - CosTable[120 - v]
      ELSE IF v <= 180 THEN 0 - CosTable[v - 120]
      ELSE CosTable[240 - v]
Sin(u) == Cos(u + 180)

\* c * radius for a table value c
Times(c, radius) ==
  IF c >= 0 THEN (c * radius) \div 100000 ELSE 0 - (((0 - c) * radius) \div 100000)

Max2(a, b) == IF a >= b THEN a ELSE b

\* does the box collide with a registered box, by index candidates and exact test
HitsFurniture(objects, h, testBox) ==
  \E id \in query(h, testBox, NoId) :
     id \in DOMAIN objects /\ intersectsBox(testBox, objects[id])

\* checkFurnitureOnlyCollision: TRUE when the box of the given size standing
\* on the position collides with no registered furniture
checkFurnitureOnlyCollision(objects, h, position, furnitureSize) ==
  LET testBox == setFromCenterAndSize(
                   <<position[1], position[2] + furnitureSize[2] \div 2, position[3]>>,
                   furnitureSize)
  IN  ~HitsFurniture(objects, h, testBox)

maxIterations == 25
InsideRings == 3
InsidePointsInRing == 8

\* Faulty variant of InsideSearch: one ring more, and no cap on the iterations
RECURSIVE InsideSearchUncapped(_, _, _, _)
InsideSearchUncapped(c, ring, i, iterations) ==
  IF ring > InsideRings + 1
  THEN LET offset == (Cardinality(DOMAIN c.objects) * c.step * 3) \div 10
       IN  [pos |-> <<c.center[1] + offset, c.floorY, c.center[3] + offset>>,
            iterations |-> iterations, via |-> "fallback"]
  ELSE IF i >= InsidePointsInRing
  THEN InsideSearchUncapped(c, ring + 1, 0, iterations)
  ELSE LET radius == ring * c.step
           u == (240 * i) \div InsidePointsInRing
           testPos == <<c.center[1] + Times(Cos(u), radius), c.floorY,
                        c.center[3] + Times(Sin(u), radius)>>
       IN  IF checkFurnitureOnlyCollision(c.objects, c.h, testPos, c.size)
           THEN [pos |-> testPos, iterations |-> iterations + 1, via |-> "ring"]
           ELSE InsideSearchUncapped(c, ring, i + 1, iterations + 1)

\* The two nested loops of findValidPositionInside, entered at (ring, i) with
\* the given iteration count; c carries the registry, the index, the size,
\* the centre, the floor and the step.  Returns the position, how many ring
\* candidates were tested, and whether the fallback was taken.
RECURSIVE InsideSearch(_, _, _, _)
InsideSearch(c, ring, i, iterations) ==
  IF ~(ring <= InsideRings /\ iterations < maxIterations)
  THEN LET offset == (Cardinality(DOMAIN c.objects) * c.step * 3) \div 10
       IN  [pos |-> <<c.center[1] + offset, c.floorY, c.center[3] + offset>>,
            iterations |-> iterations, via |-> "fallback"]
  ELSE IF ~(i < InsidePointsInRing /\ iterations < maxIterations)
  THEN InsideSearch(c, ring + 1, 0, iterations)
  ELSE LET radius == ring * c.step
           u == (240 * i) \div InsidePointsInRing
           testPos == <<c.center[1] + Times(Cos(u), radius), c.floorY,
                        c.center[3] + Times(Sin(u), radius)>>
       IN  IF checkFurnitureOnlyCollision(c.objects, c.h, testPos, c.size)
           THEN [pos |-> testPos, iterations |-> iterations + 1, via |-> "ring"]
           ELSE InsideSearch(c, ring, i + 1, iterations + 1)

\* Faulty variant of findValidPositionInside: null when the ring search is exhausted
findValidPositionInsideOrNull(mesh, objects, h, furnitureSize) ==
  IF mesh = None
  THEN [pos |-> Some(<<0, 0, 0>>), tests |-> 0, via |-> "nobackground"]
  ELSE LET backgroundBox == mesh[1].bounds
           backgroundCenter == getCenter(backgroundBox)
           floorY == backgroundBox.min[2]
           centerPos == <<backgroundCenter[1], floorY, backgroundCenter[3]>>
           step == Max2(furnitureSize[1], furnitureSize[3]) + Unit \div 2
           r == InsideSearch([objects |-> objects, h |-> h, size |-> furnitureSize,
                              center |-> backgroundCenter, floorY |-> floorY,
                              step |-> step], 1, 0, 0)
       IN  IF checkFurnitureOnlyCollision(objects, h, centerPos, furnitureSize)
           THEN [pos |-> Some(centerPos), tests |-> 1, via |-> "center"]
           ELSE [pos |-> IF r.via = "fallback" THEN None ELSE Some(r.pos),
                 tests |-> 1 + r.iterations, via |-> r.via]

\* findValidPositionInside: the position returned (Some, or None for null),
\* the number of furniture collision tests made and the branch that returned.
findValidPositionInside(mesh, objects, h, furnitureSize) ==
  IF mesh = None
  THEN [pos |-> Some(<<0, 0, 0>>), tests |-> 0, via |-> "nobackground"]
  ELSE LET backgroundBox == mesh[1].bounds
           backgroundCenter == getCenter(backgroundBox)
           floorY == backgroundBox.min[2]
           centerPos == <<backgroundCenter[1], floorY, backgroundCenter[3]>>
           step == Max2(furnitureSize[1], furnitureSize[3]) + Unit \div 2
           r == InsideSearch([objects |-> objects, h |-> h, size |-> furnitureSize,
                              center |-> backgroundCenter, floorY |-> floorY,
                              step |-> step], 1, 0, 0)
       IN  IF checkFurnitureOnlyCollision(objects, h, centerPos, furnitureSize)
           THEN [pos |-> Some(centerPos), tests |-> 1, via |-> "center"]
           ELSE [pos |-> Some(r.pos), tests |-> 1 + r.iterations, via |-> r.via]

\* Faulty variant of the call: the search empties the registry and the index
FindValidPositionInsideClearing(size) ==
  LET r == findValidPositionInside(backgroundMesh, furnitureObjects, spatialHash, size)
  IN  /\ ret' = [op |-> "findValidPositionInside", size |-> size, result |-> r.pos,
                 tests |-> r.tests, via |-> r.via,
                 again |-> (ret.op = "findValidPositionInside" /\ ret.size = size)]
      /\ furnitureObjects' = EmptyMap
      /\ spatialHash' = clear(spatialHash)
      /\ indexedBox' = EmptyMap
      /\ UNCHANGED <<backgroundVars, nextPlacementOffset, dirtyObjects, collisionCache,
                     throttleVars, observerVars, cacheOrigin, stackedSpots, history, component>>

FindValidPositionInside(size) ==
  LET r == findValidPositionInside(backgroundMesh, furnitureObjects, spatialHash, size)
  IN  /\ ret' = [op |-> "findValidPositionInside", size |-> size, result |-> r.pos,
                 tests |-> r.tests, via |-> r.via,
                 again |-> (ret.op = "findValidPositionInside" /\ ret.size = size)]
      /\ UNCHANGED <<indexedBox, backgroundVars, nextPlacementOffset, registryVars,
                     throttleVars, observerVars, cacheOrigin,
                 stackedSpots, history, component>>

OutsideRings == 5

\* points in ring r: 8 + 4 r; candidates before ring r: 8 r + 2 r (r - 1)
PointsInRing(ring) == 8 + ring * 4
RingStart(ring) == 8 * ring + 2 * ring * (ring - 1)

\* candidatePositions of findValidPosition, in the order they are pushed
candidatePositions(backgroundBox, furnitureSize) ==
  LET backgroundCenter == getCenter(backgroundBox)
      backgroundSize == getSize(backgroundBox)
      baseOffset == Max2(backgroundSize[1], backgroundSize[3]) \div 2 + Unit
      spacing == Max2(furnitureSize[1], furnitureSize[3]) + (8 * Unit) \div 10
      n == RingStart(OutsideRings)
  IN  [k \in 1..(n + 1) |->
         IF k = n + 1
         THEN <<backgroundCenter[1],
                backgroundBox.max[2] + furnitureSize[2] \div 2 + Unit \div 10,
                backgroundCenter[3]>>
         ELSE LET ring == CHOOSE r \in 0..(OutsideRings - 1) :
                             RingStart(r) < k /\ k <= RingStart(r + 1)
                  i == k - 1 - RingStart(ring)
                  radius == baseOffset + ring * spacing
                  u == (240 * i) \div PointsInRing(ring)
              IN  <<backgroundCenter[1] + Times(Cos(u), radius),
                    furnitureSize[2] \div 2 + Unit \div 10,
                    backgroundCenter[3] + Times(Sin(u), radius)>>]

\* findValidPosition: the position returned (Some, or None for null), the
\* counter it leaves, the branch that returned and the candidate tested.
findValidPosition(mesh, objects, h, far, offset, furnitureSize) ==
  IF mesh = None
  THEN [pos |-> Some(<<0, furnitureSize[2] \div 2 + Unit \div 2, 0>>),
        nextPlacementOffset |-> offset, via |-> "nobackground", tested |-> None]
  ELSE LET backgroundBox == mesh[1].bounds
           backgroundCenter == getCenter(backgroundBox)
           spacing == Max2(furnitureSize[1], furnitureSize[3]) + (8 * Unit) \div 10
           cands == candidatePositions(backgroundBox, furnitureSize)
           padding == (3 * Unit) \div 10
           paddedSize == [k \in 1..3 |-> furnitureSize[k] + padding]
           free == { k \in DOMAIN cands :
                       ~HitsFurniture(objects, h, setFromCenterAndSize(cands[k], paddedSize)) }
       IN  IF free # {}
           THEN LET pos == cands[SetMin(free)]
                    floorY == snapToFloor(mesh[1], far, pos)
                IN  IF floorY # None
                    THEN [pos |-> Some(<<pos[1],
                                         floorY[1] + furnitureSize[2] \div 2 + Unit \div 20,
                                         pos[3]>>),
                          nextPlacementOffset |-> offset, via |-> "snapped",
                          tested |-> Some(pos)]
                    ELSE [pos |-> Some(pos), nextPlacementOffset |-> offset,
                          via |-> "candidate", tested |-> Some(pos)]
           ELSE LET maxY == SetMax({backgroundBox.max[2]} \cup
                                   { objects[id].max[2] : id \in DOMAIN objects })
                    stackedY == maxY + furnitureSize[2] \div 2 + (3 * Unit) \div 10
                    next == offset + spacing
                IN  [pos |-> Some(<<backgroundCenter[1] + (next % (3 * Unit)) - Unit,
                                    stackedY,
                                    backgroundCenter[3]
                                      + (next \div (3 * Unit)) * Unit - Unit>>),
                     nextPlacementOffset |-> next, via |-> "stacked", tested |-> None]

\* Faulty variant of FindValidPosition: the advanced counter is not kept
FindValidPositionCounterLost(size) ==
  LET r == findValidPosition(backgroundMesh, furnitureObjects, spatialHash,
                             raycasterFar, nextPlacementOffset, size)
  IN  /\ r.nextPlacementOffset <= MaxOffset * Unit
      /\ nextPlacementOffset' = nextPlacementOffset
      /\ ret' = [op |-> "findValidPosition", size |-> size, result |-> r.pos,
                 via |-> r.via, tested |-> r.tested,
                 again |-> (ret.op = "findValidPosition" /\ ret.size = size)]
      /\ stackedSpots' = IF r.via = "stacked"
                         THEN stackedSpots \cup {<<r.pos[1][1], r.pos[1][3]>>}
                         ELSE stackedSpots
      /\ UNCHANGED <<history, component>>
      /\ UNCHANGED <<indexedBox, backgroundVars, registryVars, throttleVars, observerVars,
                     cacheOrigin>>

FindValidPosition(size) ==
  LET r == findValidPosition(backgroundMesh, furnitureObjects, spatialHash,
                             raycasterFar, nextPlacementOffset, size)
  IN  /\ r.nextPlacementOffset <= MaxOffset * Unit
      /\ nextPlacementOffset' = r.nextPlacementOffset
      /\ ret' = [op |-> "findValidPosition", size |-> size, result |-> r.pos,
                 via |-> r.via, tested |-> r.tested,
                 again |-> (ret.op = "findValidPosition" /\ ret.size = size)]
      /\ stackedSpots' = IF r.via = "stacked"
                         THEN stackedSpots \cup {<<r.pos[1][1], r.pos[1][3]>>}
                         ELSE stackedSpots
      /\ UNCHANGED <<history, component>>
      /\ UNCHANGED <<indexedBox, backgroundVars, registryVars, throttleVars, observerVars,
                     cacheOrigin>>

\* Sizes asked for and boxes registered in the placement specification.
FurnitureSizes == { <<1000, 1000, 1000>>, <<2000, 1000, 1000>> }

PlacedBoxes ==
  { Box(-5000, 0, -5000, 5000, 2000, 5000),
    Box(5500, 0, -500, 6500, 1000, 500),
    Box(3500, 1500, 3500, 5000, 2500, 5000),
    Box(-14000, 0, -14000, 14000, 4000, 14000) }

\* The size placed among the boxes of PlacedBoxes.
PlacedSizes == { <<1000, 1000, 1000>> }

NextPlace ==
  \/ \E mesh \in Meshes : SetBackgroundMesh(mesh)
  \/ \E id \in Ids, box \in PlacedBoxes : RegisterFurniture(id, box)
  \/ \E id \in Ids : UnregisterFurniture(id)
  \/ \E size \in PlacedSizes : FindValidPosition(size)
  \/ \E size \in PlacedSizes : FindValidPositionInside(size)

SpecPlace == Init /\ [][NextPlace]_vars

\* The detector before any background is set: the registry changes, the
\* background is queried and positions are searched.
NextNoBackground ==
  \/ \E id \in Ids, box \in PlacedBoxes : RegisterFurniture(id, box)
  \/ \E id \in Ids : UnregisterFurniture(id)
  \/ \E size \in FurnitureSizes : FindValidPosition(size)
  \/ \E size \in FurnitureSizes : FindValidPositionInside(size)
  \/ GetFloorHeight
  \/ GetBackgroundBounds
  \/ GetBackgroundCenter
  \/ \E q \in FloorPoints : GetFloorHeightAt(q[1], q[2])

SpecNoBackground == Init /\ [][NextNoBackground]_vars

-----------------------------------------------------------------------------
(* The check at the end of an interactive move *)

expandByScalar(box, scalar) ==
  [min |-> [k \in 1..3 |-> box.min[k] - scalar],
   max |-> [k \in 1..3 |-> box.max[k] + scalar]]

containsPoint(box, point) ==
  \A k \in 1..3 : box.min[k] <= point[k] /\ point[k] <= box.max[k]

\* Vector3.clamp(min, max): Math.max(min, Math.min(max, v)) per component
clamp(v, min, max) ==
  [k \in 1..3 |-> LET low == IF max[k] < v[k] THEN max[k] ELSE v[k]
                  IN  IF min[k] > low THEN min[k] ELSE low]

\* square of Vector3.distanceTo
distanceToSquared(a, b) ==
  (a[1] - b[1]) * (a[1] - b[1]) + (a[2] - b[2]) * (a[2] - b[2])
    + (a[3] - b[3]) * (a[3] - b[3])

\* Faulty variant of checkCollisionFull: the background bounds are not looked at
checkCollisionFullFurnitureOnly(objects, h, bounds, furnitureId, furnitureBox) ==
  \E id \in query(h, furnitureBox, furnitureId) :
     id \in DOMAIN objects /\ intersectsBox(furnitureBox, objects[id])

\* Faulty variant of checkCollisionFull: no soft tolerance outside the bounds
checkCollisionFullStrict(objects, h, bounds, furnitureId, furnitureBox) ==
  IF \E id \in query(h, furnitureBox, furnitureId) :
        id \in DOMAIN objects /\ intersectsBox(furnitureBox, objects[id])
  THEN TRUE
  ELSE IF bounds # None
  THEN ~containsPoint(expandByScalar(bounds[1], Unit \div 10), getCenter(furnitureBox))
  ELSE FALSE

\* checkCollisionFull; distance > 2.0 is compared on the squares
checkCollisionFull(objects, h, bounds, furnitureId, furnitureBox) ==
  IF \E id \in query(h, furnitureBox, furnitureId) :
        id \in DOMAIN objects /\ intersectsBox(furnitureBox, objects[id])
  THEN TRUE
  ELSE IF bounds # None
  THEN LET center == getCenter(furnitureBox)
           tolerance == Unit \div 10
           expandedBounds == expandByScalar(bounds[1], tolerance)
       IN  IF ~containsPoint(expandedBounds, center)
           THEN distanceToSquared(center, clamp(center, bounds[1].min, bounds[1].max))
                  > (2 * Unit) * (2 * Unit)
           ELSE FALSE
  ELSE FALSE

CheckCollisionFull(id, box) ==
  /\ ret' = [op |-> "checkCollisionFull", id |-> id, box |-> box,
             result |-> checkCollisionFull(furnitureObjects, spatialHash,
                                           backgroundBounds, id, box),
             again |-> (ret.op = "checkCollisionFull" /\ ret.id = id /\ ret.box = box)]
  /\ UNCHANGED <<indexedBox, backgroundVars, nextPlacementOffset, registryVars,
                 throttleVars, observerVars, cacheOrigin,
                 stackedSpots, history, component>>

\* Boxes moved around the surface with bounds [0,-0.5,0]x[3,2,3]: centred
\* inside it, centred 1.0, 2.05 and 3.0 beyond its +x face, and centred 1.0
\* and 5.0 beyond that face moved out by the 0.1 tolerance.
MoveBoxes ==
  { Box(1000, 0, 1000, 2000, 1000, 2000),
    Box(3500, 0, 1000, 4500, 1000, 2000),
    Box(4550, 0, 1000, 5550, 1000, 2000),
    Box(5500, 0, 1000, 6500, 1000, 2000),
    Box(3600, 0, 1000, 4600, 1000, 2000),
    Box(7600, 0, 1000, 8600, 1000, 2000) }

\* The boxes furniture is left at when a move ends.
ParkedBoxes == { b \in MoveBoxes : b.min[1] <= 3500 }

MoveMeshes == { PitMesh, ScenarioCloud }

NextMove ==
  \/ \E mesh \in MoveMeshes : SetBackgroundMesh(mesh)
  \/ \E id \in Ids, box \in ParkedBoxes : RegisterFurniture(id, box)
  \/ \E id \in Ids, box \in ParkedBoxes : CheckCollision(id, box)
  \/ \E id \in Ids, box \in MoveBoxes : CheckCollisionFull(id, box)

SpecMove == Init /\ [][NextMove]_vars

\* Every query of the detector on one small surface, with a box inside it
\* and a box that covers every candidate of the outside search.
QueryBoxes ==
  { Box(1000, 0, 1000, 2000, 1000, 2000),
    Box(-10000, -1000, -10000, 13000, 5000, 13000) }

QueryMeshes == { PitMesh }

NextQuery ==
  \/ \E mesh \in QueryMeshes : SetBackgroundMesh(mesh)
  \/ \E id \in Ids, box \in QueryBoxes : RegisterFurniture(id, box)
  \/ \E id \in Ids : UnregisterFurniture(id)
  \/ \E id \in Ids, box \in QueryBoxes : CheckCollisionFull(id, box)
  \/ \E q \in FloorPoints : GetFloorHeightAt(q[1], q[2])
  \/ \E size \in FurnitureSizes : FindValidPosition(size)
  \/ \E size \in FurnitureSizes : FindValidPositionInside(size)

SpecQuery == Init /\ [][NextQuery]_vars

\* The inside search on its own, among a box over the centroid of the
\* surface, a box beside it that shares a face with the box standing at the
\* centroid, and a box over the first candidates of ring 1.
InsideBoxes ==
  { Box(1000, 0, 1000, 2000, 1000, 2000),
    Box(2000, 0, 1000, 3000, 1000, 2000),
    Box(2200, 0, 500, 4000, 1000, 4000) }

NextInside ==
  \/ \E mesh \in QueryMeshes : SetBackgroundMesh(mesh)
  \/ \E id \in Ids, box \in InsideBoxes : RegisterFurniture(id, box)
  \/ \E id \in Ids : UnregisterFurniture(id)
  \/ \E size \in FurnitureSizes : FindValidPositionInside(size)

SpecInside == Init /\ [][NextInside]_vars

-----------------------------------------------------------------------------
(* The page and the drag driver: hooks/use-history.ts, my-app/app/page.tsx  *)
(* and my-app/components/furniture-objects.tsx, for a page with at most one *)
(* chair at a time among the boxes another item registers.  The chair is    *)
(* never rotated, so an item is its id and its position.                    *)

MaxPast == 3
MaxItems == 2

\* the id of the other item
ObstacleId == 100

\* q.slice(-n)
SliceLast(q, n) == IF Len(q) <= n THEN q ELSE SubSeq(q, Len(q) - n + 1, Len(q))

\* Faulty variant of set: the past is not limited to maxHistory entries
setUnbounded(h, nextState) ==
  IF nextState = h.present THEN h
  ELSE IF h.isUndoRedoAction
  THEN [h EXCEPT !.isUndoRedoAction = FALSE, !.present = nextState]
  ELSE [h EXCEPT !.past = Append(h.past, h.present),
                 !.present = nextState,
                 !.future = <<>>]

\* Faulty variant of set: a state equal to the present is recorded too
setAlwaysRecords(h, nextState) ==
  IF h.isUndoRedoAction
  THEN [h EXCEPT !.isUndoRedoAction = FALSE, !.present = nextState]
  ELSE [h EXCEPT !.past = SliceLast(Append(h.past, h.present), h.maxHistory),
                 !.present = nextState,
                 !.future = <<>>]

\* useHistory.set with a value (JSON.stringify equality is equality of values)
set(h, nextState) ==
  IF nextState = h.present THEN h
  ELSE IF h.isUndoRedoAction
  THEN [h EXCEPT !.isUndoRedoAction = FALSE, !.present = nextState]
  ELSE [h EXCEPT !.past = SliceLast(Append(h.past, h.present), h.maxHistory),
                 !.present = nextState,
                 !.future = <<>>]

\* Faulty variant of undo: the present is not pushed onto the future
undoDropsPresent(h) ==
  IF Len(h.past) = 0 THEN h
  ELSE [h EXCEPT !.past = SubSeq(h.past, 1, Len(h.past) - 1),
                 !.present = h.past[Len(h.past)],
                 !.isUndoRedoAction = TRUE]

undo(h) ==
  IF Len(h.past) = 0 THEN h
  ELSE [h EXCEPT !.past = SubSeq(h.past, 1, Len(h.past) - 1),
                 !.present = h.past[Len(h.past)],
                 !.future = <<h.present>> \o h.future,
                 !.isUndoRedoAction = TRUE]

redo(h) ==
  IF Len(h.future) = 0 THEN h
  ELSE [h EXCEPT !.past = Append(h.past, h.present),
                 !.present = Head(h.future),
                 !.future = Tail(h.future),
                 !.isUndoRedoAction = TRUE]

\* reset leaves the isUndoRedoAction ref as it is
reset(h, newState) ==
  [h EXCEPT !.past = <<>>, !.present = newState, !.future = <<>>]

canUndo(h) == Len(h.past) > 0
canRedo(h) == Len(h.future) > 0

\* The hook on its own, created with a small maxHistory and driven with a
\* few item lists.
MaxCap == 3
HistoryCaps == 1..MaxCap

HistoryStates ==
  { <<>>,
    <<[id |-> 1, position |-> <<0, 0, 0>>]>>,
    <<[id |-> 1, position |-> <<2000, 0, 2000>>]>> }

HistoryFrame ==
  UNCHANGED <<indexedBox, backgroundVars, nextPlacementOffset, registryVars,
              throttleVars, observerVars, cacheOrigin, stackedSpots, component>>

UseHistorySet(s) ==
  /\ history' = set(history, s)
  /\ ret' = [op |-> "set", state |-> s, before |-> history]
  /\ HistoryFrame

UseHistoryUndo ==
  /\ history' = undo(history)
  /\ ret' = [op |-> "undo", before |-> history]
  /\ HistoryFrame

UseHistoryRedo ==
  /\ history' = redo(history)
  /\ ret' = [op |-> "redo", before |-> history]
  /\ HistoryFrame

UseHistoryReset(s) ==
  /\ history' = reset(history, s)
  /\ ret' = [op |-> "reset", state |-> s, before |-> history]
  /\ HistoryFrame

InitHistory ==
  /\ spatialHash = NewSpatialHash(2 * Unit)
  /\ indexedBox = EmptyMap
  /\ backgroundMesh = None
  /\ backgroundBounds = None
  /\ cachedFloorHeight = None
  /\ floorHeightGrid = EmptyMap
  /\ raycasterFar = None
  /\ nextPlacementOffset = 0
  /\ furnitureObjects = EmptyMap
  /\ dirtyObjects = {}
  /\ collisionCache = EmptyMap
  /\ lastCheckTime = 0
  /\ now = 0
  /\ ret = [op |-> "new"]
  /\ prevCheck = [a \in Ids |-> None]
  /\ invalidators = [a \in Ids |-> None]
  /\ cacheOrigin = EmptyMap
  /\ stackedSpots = {}
  /\ \E m \in HistoryCaps : history = [NewHistory EXCEPT !.maxHistory = m]
  /\ component = None

NextHistory ==
  \/ \E s \in HistoryStates : UseHistorySet(s)
  \/ UseHistoryUndo
  \/ UseHistoryRedo
  \/ \E s \in HistoryStates : UseHistoryReset(s)

SpecHistory == InitHistory /\ [][NextHistory]_vars

\* furnitureSize of handleAddFurniture("chair")
ChairSize == <<800, 1500, 800>>

\* new THREE.Box3().setFromObject(group) for a chair whose group is at pos:
\* the click box [0.5, 0.8, 0.5] centred 0.4 above the group encloses the parts
BoxAt(pos) ==
  Box(pos[1] - 250, pos[2], pos[3] - 250, pos[1] + 250, pos[2] + 800, pos[3] + 250)

\* The detector's registry as a value, and the two registry methods on it.
Detector ==
  [furnitureObjects |-> furnitureObjects, spatialHash |-> spatialHash,
   dirtyObjects |-> dirtyObjects, collisionCache |-> collisionCache]

registerFurniture(d, id, box) ==
  LET objects == MapSet(d.furnitureObjects, id, box)
      h == insert(d.spatialHash, id, box)
      m == markDirty(objects, h, d.dirtyObjects, d.collisionCache, id)
  IN  [furnitureObjects |-> objects, spatialHash |-> h,
       dirtyObjects |-> m.dirtyObjects, collisionCache |-> m.collisionCache]

unregisterFurniture(d, id) ==
  [furnitureObjects |-> MapDelete(d.furnitureObjects, {id}),
   spatialHash |-> remove(d.spatialHash, id),
   dirtyObjects |-> d.dirtyObjects \ {id},
   collisionCache |-> MapDelete(d.collisionCache, {id})]

SetDetector(d) ==
  /\ furnitureObjects' = d.furnitureObjects
  /\ spatialHash' = d.spatialHash
  /\ dirtyObjects' = d.dirtyObjects
  /\ collisionCache' = d.collisionCache
  /\ cacheOrigin' = [a \in DOMAIN d.collisionCache |-> cacheOrigin[a]]

\* A render of FurnitureObjects with the given items (components are keyed
\* by item.id).  An item that is gone: its component unmounts and its effect
\* cleanup unregisters it.  A new item: a component mounts with its group and
\* previousValidPosition at item.position and its effect registers the box.
\* The same item: the position prop is applied to the group when it differs
\* from the one applied before, previousValidPosition stays (its effect
\* depends on item.id only), and the registering effect leaves the box of
\* the group registered.
render(items, c, d) ==
  LET unmounted == IF c = None THEN d ELSE unregisterFurniture(d, c[1].id)
  IN  IF Len(items) = 0
      THEN [component |-> None, detector |-> unmounted]
      ELSE LET id == items[1].id
               pos == items[1].position
           IN  IF c = None \/ (c # None /\ c[1].id # id)
               THEN [component |-> Some([id |-> id, group |-> pos, position |-> pos,
                                         previousValidPosition |-> pos,
                                         isDragging |-> FALSE,
                                         positionStart |-> pos, passed |-> {}]),
                     detector |-> registerFurniture(unmounted, id, BoxAt(pos))]
               ELSE LET group == IF pos # c[1].position THEN pos ELSE c[1].group
                    IN  [component |-> Some([c[1] EXCEPT !.group = group,
                                                         !.position = pos]),
                         detector |-> registerFurniture(unmounted, id, BoxAt(group))]

\* The ids of the items in the states the history holds; a new item gets an
\* id none of them has (`${type}-${Date.now()}`).
IdsIn(q) == { q[i][1].id : i \in { j \in 1..Len(q) : Len(q[j]) > 0 } }
KnownIds(h) == IdsIn(h.past) \cup IdsIn(<<h.present>>) \cup IdsIn(h.future)
FreshId(h) == SetMax(KnownIds(h) \cup {0}) + 1

Rendered(h) ==
  LET r == render(h.present, component, Detector)
  IN  /\ history' = h
      /\ component' = r.component
      /\ SetDetector(r.detector)

\* handleAddFurniture("chair") on a page without items
HandleAddFurniture ==
  LET center == getBackgroundCenter(backgroundMesh, cachedFloorHeight)
      pos == IF center = None THEN <<0, 0, 0>>
             ELSE findValidPositionInside(backgroundMesh, furnitureObjects,
                                          spatialHash, ChairSize).pos[1]
  IN  /\ Len(history.present) = 0
      /\ Len(history.past) < MaxPast
      /\ FreshId(history) <= MaxItems
      /\ Rendered(set(history, <<[id |-> FreshId(history), position |-> pos]>>))
      /\ ret' = [op |-> "handleAddFurniture", position |-> pos]
      /\ UNCHANGED <<indexedBox, backgroundVars, nextPlacementOffset, throttleVars,
                     observerVars, stackedSpots>>

\* dragging-changed with event.value true: the control remembers where the
\* group is and the drag begins
OnDraggingChanged ==
  /\ component # None
  /\ ~component[1].isDragging
  /\ component' = Some([component[1] EXCEPT !.isDragging = TRUE,
                                            !.positionStart = component[1].group,
                                            !.passed = {}])
  /\ ret' = [op |-> "onDraggingChanged", position |-> component[1].group]
  /\ UNCHANGED <<indexedBox, backgroundVars, nextPlacementOffset, registryVars,
                 throttleVars, observerVars, cacheOrigin, stackedSpots, history>>

\* objectChange in translate mode, the control having moved the group to
\* (x, z) at the height it had when the drag began
OnObjectChange(x, z) ==
  LET c == component[1]
      pos == <<x, c.positionStart[2], z>>
      hasCollision == checkCollisionFull(furnitureObjects, spatialHash, backgroundBounds,
                                         c.id, BoxAt(pos))
      floorY == getFloorHeightAt(backgroundMesh, backgroundBounds, floorHeightGrid,
                                 cachedFloorHeight, x, z)
      snapped == IF floorY.result # None THEN <<x, floorY.result[1], z>> ELSE pos
  IN  /\ component # None
      /\ c.isDragging
      /\ component' =
           IF hasCollision
           THEN Some([c EXCEPT !.group = c.previousValidPosition])
           ELSE Some([c EXCEPT !.group = snapped, !.previousValidPosition = snapped,
                               !.passed = c.passed \cup {snapped}])
      /\ raycasterFar' =
           IF ~hasCollision /\ floorY.via # "grid"
              /\ backgroundMesh # None /\ backgroundBounds # None
           THEN Some(SampleFar(backgroundBounds[1]))
           ELSE raycasterFar
      /\ ret' = [op |-> "onObjectChange", position |-> pos, hasCollision |-> hasCollision]
      /\ UNCHANGED <<indexedBox, backgroundMesh, backgroundBounds, cachedFloorHeight,
                     floorHeightGrid, nextPlacementOffset, registryVars, throttleVars,
                     observerVars, cacheOrigin, stackedSpots, history>>

\* dragging-changed with event.value false: handleDragEnd, then onMove and
\* onRotate, both of which set the items of the render they were made in,
\* and the render that follows
HandleDragEnd ==
  LET c == component[1]
      hasCollision == checkCollisionFull(furnitureObjects, spatialHash, backgroundBounds,
                                         c.id, BoxAt(c.group))
      final == IF hasCollision THEN c.previousValidPosition ELSE c.group
      d == registerFurniture(Detector, c.id, BoxAt(final))
      items == history.present
      moved == <<[items[1] EXCEPT !.position = final]>>
      h == set(set(history, moved), items)
      r == render(h.present,
                  Some([c EXCEPT !.isDragging = FALSE, !.group = final,
                                 !.previousValidPosition = final]),
                  d)
  IN  /\ component # None
      /\ c.isDragging
      /\ Len(h.past) <= MaxPast
      /\ history' = h
      /\ component' = r.component
      /\ SetDetector(r.detector)
      /\ ret' = [op |-> "handleDragEnd", id |-> c.id, hasCollision |-> hasCollision,
                 dragged |-> c.group, position |-> final]
      /\ UNCHANGED <<indexedBox, backgroundVars, nextPlacementOffset, throttleVars,
                     observerVars, stackedSpots>>

Undo ==
  /\ IF component = None THEN TRUE ELSE ~component[1].isDragging
  /\ Len(history.past) > 0
  /\ Rendered(undo(history))
  /\ ret' = [op |-> "undo"]
  /\ UNCHANGED <<indexedBox, backgroundVars, nextPlacementOffset, throttleVars,
                 observerVars, stackedSpots>>

Redo ==
  /\ IF component = None THEN TRUE ELSE ~component[1].isDragging
  /\ Len(history.future) > 0
  /\ Len(history.past) < MaxPast
  /\ Rendered(redo(history))
  /\ ret' = [op |-> "redo"]
  /\ UNCHANGED <<indexedBox, backgroundVars, nextPlacementOffset, throttleVars,
                 observerVars, stackedSpots>>

\* Where the pointer takes the chair, and the boxes of the other item, on a
\* page where no scan has been loaded.
DragTargets == { <<0, 0>>, <<2000, 2000>> }

ObstacleBoxes ==
  { Box(-500, 0, -500, 500, 1000, 500),
    Box(1700, 0, 1700, 2300, 1000, 2300) }

NextDrag ==
  \/ \E box \in ObstacleBoxes : RegisterFurniture(ObstacleId, box)
  \/ UnregisterFurniture(ObstacleId)
  \/ HandleAddFurniture
  \/ OnDraggingChanged
  \/ \E t \in DragTargets : OnObjectChange(t[1], t[2])
  \/ HandleDragEnd
  \/ Undo
  \/ Redo

SpecDrag == Init /\ [][NextDrag]_vars

-----------------------------------------------------------------------------
(* Placement results *)

\* the two boxes overlap with positive extent on all three axes
Overlaps(a, b) == \A k \in 1..3 : a.min[k] < b.max[k] /\ b.min[k] < a.max[k]

\* the box of the given size standing on / centred on a position
StandingBox(pos, size) ==
  setFromCenterAndSize(<<pos[1], pos[2] + size[2] \div 2, pos[3]>>, size)
CentredBox(pos, size) == setFromCenterAndSize(pos, size)

FreeOfFurniture(box) ==
  \A id \in DOMAIN furnitureObjects : ~Overlaps(box, furnitureObjects[id])

IsInside(r) == r.op = "findValidPositionInside"
IsOutside(r) == r.op = "findValidPosition"

\* C4: with a background set, the position findValidPositionInside returns is
\* one where a box of the requested size standing on it overlaps no
\* registered furniture box, the offset fallback included.
C4_InsideResultFree ==
  (IsInside(ret) /\ backgroundMesh # None)
     => FreeOfFurniture(StandingBox(ret.result[1], ret.size))

\* C5: with a background set, the position findValidPosition returns is one
\* where a box of the requested size centred on it overlaps no registered
\* furniture box, for a snapped ring candidate as for the stacking fallback.
C5_OutsideResultFree ==
  (IsOutside(ret) /\ backgroundMesh # None)
     => FreeOfFurniture(CentredBox(ret.result[1], ret.size))

\* C6: findValidPosition and findValidPositionInside never return null.
C6_NeverNull ==
  (IsInside(ret) \/ IsOutside(ret)) => ret.result # None

\* both searches have been exhausted: the inside search has just returned its
\* offset fallback, after the outside search took its stacking fallback
C6_Witness ==
  /\ IsInside(ret) /\ ret.via = "fallback" /\ ret.result # None
  /\ nextPlacementOffset > 0

\* C7: findValidPositionInside makes at most 26 furniture collision tests.
C7_AtMost26Tests ==
  IsInside(ret) => ret.tests <= 26

\* the centre and every ring candidate were tested before the fallback
C7_Witness ==
  /\ IsInside(ret) /\ ret.via = "fallback"
  /\ ret.tests = 1 + InsideRings * InsidePointsInRing
  /\ Cardinality(DOMAIN furnitureObjects) = 2

-----------------------------------------------------------------------------
(* Background results *)

IsFloorAt(r) == r.op = "getFloorHeightAt"

\* What a detector that has only ever seen the surface holds for it.
BoundsOf(mesh) == Some(mesh.bounds)
GridOf(mesh) == IF mesh.hasIndex THEN buildFloorHeightGrid(mesh, mesh.bounds) ELSE EmptyMap
HasVertices(mesh) == mesh.vertexY # None /\ mesh.vertexY[1] # <<>>
IsLowestVertexY(mesh, v) ==
  /\ \E i \in DOMAIN mesh.vertexY[1] : mesh.vertexY[1][i] = v
  /\ \A i \in DOMAIN mesh.vertexY[1] : v <= mesh.vertexY[1][i]
FloorOf(mesh) ==
  LET height == IF mesh.hasIndex
                THEN calculateDefaultFloorHeight(GridOf(mesh), BoundsOf(mesh))
                ELSE findLowestVertexY(mesh)
  IN  IF height = None THEN Some(mesh.bounds.min[2]) ELSE height

\* C13: after setBackgroundMesh(S2) the bounds, the default floor height,
\* the floor height grid and every getFloorHeightAt answer are derived from
\* S2 only, whatever surfaces were set before it.
C13_DerivedFromCurrentOnly ==
  backgroundMesh # None =>
    LET S2 == backgroundMesh[1]
    IN  /\ backgroundBounds = BoundsOf(S2)
        /\ cachedFloorHeight = FloorOf(S2)
        /\ floorHeightGrid = GridOf(S2)
        /\ IsFloorAt(ret) =>
              ret.result = getFloorHeightAt(backgroundMesh, backgroundBounds, GridOf(S2),
                                            cachedFloorHeight, ret.x, ret.z).result

\* C14: for a point cloud with at least one vertex, getFloorHeight after
\* setBackgroundMesh is the minimum vertex Y.
C14_CloudFloorIsLowestVertex ==
  (backgroundMesh # None /\ ~backgroundMesh[1].hasIndex /\ HasVertices(backgroundMesh[1]))
    => /\ getFloorHeight(cachedFloorHeight) # None
       /\ IsLowestVertexY(backgroundMesh[1], getFloorHeight(cachedFloorHeight)[1])

\* vertices at Y 0.2, 0.5, 1.0 give 0.2, read back through getFloorHeight
C14_Witness ==
  /\ ret.op = "getFloorHeight" /\ ret.result = Some(200)
  /\ backgroundMesh = Some(ScenarioCloud)

\* number of sampled heights below v, and not above v
CountBelow(grid, v) == Cardinality({ k \in DOMAIN grid : grid[k] < v })
CountUpTo(grid, v) == Cardinality({ k \in DOMAIN grid : grid[k] <= v })

\* C15: for a background with faces and n >= 1 sampled heights, the default
\* floor height is the element at index floor(n * 0.1) of the heights sorted
\* ascending: at most that many heights lie below it and more than that many
\* do not exceed it; it is the minimum when n < 10, never below the minimum
\* and never above the median.
C15_TenthPercentile ==
  (backgroundMesh # None /\ backgroundMesh[1].hasIndex /\ DOMAIN floorHeightGrid # {})
    => LET n == Cardinality(DOMAIN floorHeightGrid)
           heights == { floorHeightGrid[k] : k \in DOMAIN floorHeightGrid }
       IN  /\ cachedFloorHeight # None
           /\ cachedFloorHeight[1] \in heights
           /\ CountBelow(floorHeightGrid, cachedFloorHeight[1]) <= n \div 10
           /\ CountUpTo(floorHeightGrid, cachedFloorHeight[1]) > n \div 10
           /\ n < 10 => \A h \in heights : cachedFloorHeight[1] <= h
           /\ CountBelow(floorHeightGrid, cachedFloorHeight[1]) <= n \div 2

\* fifteen sampled heights, one of them (the pit) below the default
C15_Witness ==
  /\ backgroundMesh = Some(PitMesh)
  /\ Cardinality(DOMAIN floorHeightGrid) = 15
  /\ cachedFloorHeight = Some(0)
  /\ CountBelow(floorHeightGrid, 0) = 1

\* C16 (as stated): when the surface has faces but sampling yields no hit, or has no
\* faces, the floor height is the minimum vertex Y found by scanning the
\* vertices; the bounding box's minimum Y is used only when the scan yields
\* nothing.
C16_FallbackChain ==
  (/\ backgroundMesh # None
   /\ (~backgroundMesh[1].hasIndex \/ GridOf(backgroundMesh[1]) = EmptyMap))
    => /\ cachedFloorHeight # None
       /\ IF HasVertices(backgroundMesh[1])
          THEN IsLowestVertexY(backgroundMesh[1], cachedFloorHeight[1])
          ELSE cachedFloorHeight[1] = backgroundMesh[1].bounds.min[2]

\* C16 (amended): when the surface has faces but sampling yields no hit, the
\* floor height is the bounding box's minimum Y, with no vertex scan; when
\* it has no faces, it is the minimum vertex Y found by scanning the
\* vertices, and the bounding box's minimum Y when the scan yields nothing.
C16_FallbackChainAsBuilt ==
  backgroundMesh # None =>
    LET mesh == backgroundMesh[1]
    IN  /\ (mesh.hasIndex /\ GridOf(mesh) = EmptyMap)
              => cachedFloorHeight = Some(mesh.bounds.min[2])
        /\ (~mesh.hasIndex /\ HasVertices(mesh))
              => (cachedFloorHeight # None /\ IsLowestVertexY(mesh, cachedFloorHeight[1]))
        /\ (~mesh.hasIndex /\ ~HasVertices(mesh))
              => cachedFloorHeight = Some(mesh.bounds.min[2])

\* faces without a sample, on a surface whose lowest vertex Y is not the
\* minimum Y of its bounds
C16_Witness ==
  /\ backgroundMesh = Some(WallsMesh)
  /\ floorHeightGrid = EmptyMap
  /\ ret.op = "getFloorHeight" /\ ret.result = Some(1200)
  /\ ~IsLowestVertexY(WallsMesh, 1200)

\* C17: getFloorHeightAt returns the grid value of the cell containing
\* (x, z) when the cell has one, otherwise the ray sample at (x, z) when the
\* ray hits, otherwise the cached default.
C17_ResolutionOrder ==
  IsFloorAt(ret) =>
    LET key == getGridKey(ret.x, ret.z)
        hit == sampleFloorHeightAt(backgroundMesh, backgroundBounds, ret.x, ret.z)
    IN  ret.result = IF key \in DOMAIN floorHeightGrid THEN Some(floorHeightGrid[key])
                     ELSE IF hit # None THEN hit
                     ELSE cachedFloorHeight

\* a cell without a grid value, answered by the on-demand ray sample
C17_Witness ==
  /\ IsFloorAt(ret) /\ ret.via = "sample"
  /\ getGridKey(ret.x, ret.z) \notin DOMAIN floorHeightGrid
  /\ ret.result = Some(300) /\ cachedFloorHeight = Some(0)
  /\ backgroundMesh = Some(PitMesh)

\* C19: a background with no ray hits and no vertices leaves the floor
\* height absent: getFloorHeight and getFloorHeightAt return null.
C19_NoSamplesNoHeight ==
  (/\ backgroundMesh # None
   /\ backgroundMesh[1].patches = {}
   /\ ~HasVertices(backgroundMesh[1])
   /\ floorHeightGrid = EmptyMap)
    => /\ getFloorHeight(cachedFloorHeight) = None
       /\ IsFloorAt(ret) => ret.result = None

-----------------------------------------------------------------------------
(* Before a background is set *)

\* C18: while no background has been set, getFloorHeight, getFloorHeightAt,
\* getBackgroundBounds and getBackgroundCenter return null, findValidPosition
\* returns (0, size.y / 2 + 0.5, 0) and findValidPositionInside returns
\* (0, 0, 0), whatever the registry holds.
C18_UnsetBackground ==
  backgroundMesh = None =>
    /\ ret.op \in {"getFloorHeight", "getFloorHeightAt", "getBackgroundBounds",
                   "getBackgroundCenter"} => ret.result = None
    /\ IsOutside(ret) => ret.result = Some(<<0, ret.size[2] \div 2 + Unit \div 2, 0>>)
    /\ IsInside(ret) => ret.result = Some(<<0, 0, 0>>)

\* the centre is asked for with no background set and furniture registered
C18_Witness ==
  /\ backgroundMesh = None
  /\ ret.op = "getBackgroundCenter" /\ ret.result = None
  /\ DOMAIN furnitureObjects # {}

-----------------------------------------------------------------------------
(* Move results *)

\* C12: after setBackgroundMesh, no checkCollision call returns a result that
\* was cached before that setBackgroundMesh call.
C12_NoCacheAcrossBackground ==
  (IsCheck(ret) /\ ret.cached) => ~cacheOrigin[ret.id].stale

IsFull(r) == r.op = "checkCollisionFull"

\* square of the distance from a point to a box (0 inside the box)
DistanceSquaredToBox(point, box) ==
  distanceToSquared(point, [k \in 1..3 |->
                              IF point[k] < box.min[k] THEN box.min[k]
                              ELSE IF point[k] > box.max[k] THEN box.max[k]
                              ELSE point[k]])

\* C20 (as stated): for a box that intersects no other registered furniture,
\* checkCollisionFull returns true exactly when a background is set and the
\* box's centre lies more than 2.0 outside the background bounds expanded by
\* the 0.1 tolerance.
C20_FarOutsideExpanded ==
  (IsFull(ret) /\ ~BruteForceCollision(ret.id, ret.box))
    => (ret.result <=>
          /\ backgroundBounds # None
          /\ DistanceSquaredToBox(getCenter(ret.box),
                                  expandByScalar(backgroundBounds[1], Unit \div 10))
               > (2 * Unit) * (2 * Unit))

\* C20 (amended): for a box that intersects no other registered furniture,
\* checkCollisionFull returns true exactly when a background is set and the
\* box's centre lies more than 2.0 from the background bounds themselves
\* (not expanded); it returns false otherwise, and whenever no background
\* is set.
C20_FarOutsideBounds ==
  (IsFull(ret) /\ ~BruteForceCollision(ret.id, ret.box))
    => (ret.result <=>
          /\ backgroundBounds # None
          /\ DistanceSquaredToBox(getCenter(ret.box), backgroundBounds[1])
               > (2 * Unit) * (2 * Unit))

\* reported although the centre is less than 2.0 outside the expanded
\* bounds, with furniture registered that the box does not meet
C20_Witness ==
  /\ IsFull(ret) /\ ret.result
  /\ ~BruteForceCollision(ret.id, ret.box)
  /\ DOMAIN furnitureObjects \ {ret.id} # {}
  /\ backgroundBounds # None
  /\ DistanceSquaredToBox(getCenter(ret.box),
                          expandByScalar(backgroundBounds[1], Unit \div 10))
       < (2 * Unit) * (2 * Unit)

\* square of the distance from the centre of a box to the background bounds
\* expanded by the 0.1 tolerance
OutsideExpandedSquared(box) ==
  DistanceSquaredToBox(getCenter(box), expandByScalar(backgroundBounds[1], Unit \div 10))

\* C21: with no other furniture registered, checkCollisionFull returns true
\* for a box whose centre is 5 units outside the expanded background bounds
\* and false for a box whose centre is 1 unit outside them.
C21_FiveOutOneOut ==
  (IsFull(ret) /\ backgroundBounds # None /\ DOMAIN furnitureObjects \ {ret.id} = {})
    => /\ OutsideExpandedSquared(ret.box) = (5 * Unit) * (5 * Unit) => ret.result
       /\ OutsideExpandedSquared(ret.box) = Unit * Unit => ~ret.result

\* the box centred 1 unit outside the expanded bounds has been let through
\* while the item checked is itself registered elsewhere
C21_Witness ==
  /\ IsFull(ret) /\ ~ret.result
  /\ backgroundBounds # None
  /\ DOMAIN furnitureObjects = {ret.id}
  /\ OutsideExpandedSquared(ret.box) = Unit * Unit

-----------------------------------------------------------------------------
(* The exact intersection test *)

\* C22: the exact test reports two boxes as colliding iff they overlap with
\* positive extent on all three axes; boxes that only touch are reported as
\* not colliding.  Stated on a recomputed checkCollision.
C22_TouchingIsFree ==
  (IsCheck(ret) /\ ~ret.cached)
    => (ret.result <=>
          \E other \in DOMAIN furnitureObjects \ {ret.id} :
             Overlaps(ret.box, furnitureObjects[other]))

-----------------------------------------------------------------------------
(* Placement scenarios and order *)

\* the registry holds the given box and nothing else
OnlyFurniture(box) ==
  \E id \in Ids : DOMAIN furnitureObjects = {id} /\ furnitureObjects[id] = box

\* C23: with the single box [-5,0,-5]x[5,2,5] registered and a background
\* whose horizontal centroid is the centre of that box, findValidPositionInside
\* for size [1,1,1] rejects the centroid and returns a candidate of ring 1 or
\* ring 2 whose box does not overlap the registered box.
C23_ScenarioRingCandidate ==
  (/\ IsInside(ret) /\ ret.size = <<Unit, Unit, Unit>>
   /\ backgroundMesh # None
   /\ getCenter(backgroundMesh[1].bounds)[1] = 0
   /\ getCenter(backgroundMesh[1].bounds)[3] = 0
   /\ OnlyFurniture(Box(-5000, 0, -5000, 5000, 2000, 5000)))
    => /\ ret.via = "ring"
       /\ ret.tests <= 1 + 2 * InsidePointsInRing
       /\ FreeOfFurniture(StandingBox(ret.result[1], ret.size))

IsStacked(r) == IsOutside(r) /\ r.via = "stacked"

\* the highest top among the registered furniture and the background
HighestTop ==
  SetMax({backgroundMesh[1].bounds.max[2]}
           \cup { furnitureObjects[id].max[2] : id \in DOMAIN furnitureObjects })

\* C25: when every candidate of findValidPosition collides, the returned
\* position has Y = max(highest furniture top, background top) + size.y / 2
\* + 0.3, nextPlacementOffset strictly increases on every such fallback and
\* never decreases, and the (x, z) returned differs from that of every
\* earlier fallback against the same background.
C25_StackingFallback ==
  [][ /\ nextPlacementOffset' >= nextPlacementOffset
      /\ IsStacked(ret') =>
            /\ ret'.result[1][2] = HighestTop + ret'.size[2] \div 2 + (3 * Unit) \div 10
            /\ nextPlacementOffset' > nextPlacementOffset
            /\ <<ret'.result[1][1], ret'.result[1][3]>> \notin stackedSpots ]_vars

\* a third stacking fallback against the same background, on top of
\* furniture higher than the background
C25_Witness ==
  /\ IsStacked(ret)
  /\ Cardinality(stackedSpots) = 3
  /\ HighestTop > backgroundMesh[1].bounds.max[2]

-----------------------------------------------------------------------------
(* Queries called twice *)

IsQuery(r) ==
  r.op \in {"checkCollisionFull", "getFloorHeightAt", "findValidPositionInside",
            "findValidPosition"}

\* C24 (as stated): checkCollisionFull, getFloorHeightAt,
\* findValidPositionInside or findValidPosition called twice back-to-back
\* with the same arguments returns equal results both times.
C24_BackToBackEqual ==
  [][ (IsQuery(ret') /\ ret'.again) => ret'.result = ret.result ]_vars

\* C24 (amended): the two results are equal for checkCollisionFull,
\* getFloorHeightAt and findValidPositionInside, and for findValidPosition
\* unless the second call takes the stacking fallback.
C24_BackToBackEqualUnlessStacked ==
  [][ (IsQuery(ret') /\ ret'.again /\ ~IsStacked(ret')) => ret'.result = ret.result ]_vars

\* findValidPosition has been called twice in a row with the same size, a
\* background set and furniture in the way of the first candidates
C24_Witness ==
  /\ IsOutside(ret) /\ ret.again /\ ~IsStacked(ret)
  /\ backgroundMesh # None
  /\ ret.tested # None /\ ret.tested # Some(candidatePositions(backgroundMesh[1].bounds,
                                                               ret.size)[1])

-----------------------------------------------------------------------------
(* Registering and unregistering *)

\* the cells whose bucket holds id
BucketsOf(h, id) == { c \in DOMAIN h.grid : id \in h.grid[c] }

\* the index cells recorded against id (none when it is not indexed)
IndexCellsOf(h, id) == IF id \in DOMAIN h.objectCells THEN h.objectCells[id] ELSE {}

OthersUntouched(id) ==
  \A o \in Ids \ {id} :
     /\ StoredBox(o)' = StoredBox(o)
     /\ (o \in DOMAIN spatialHash'.objectCells) = (o \in DOMAIN spatialHash.objectCells)
     /\ IndexCellsOf(spatialHash', o) = IndexCellsOf(spatialHash, o)
     /\ BucketsOf(spatialHash', o) = BucketsOf(spatialHash, o)

Removed(id) ==
  /\ id \notin DOMAIN furnitureObjects'
  /\ id \notin DOMAIN spatialHash'.objectCells
  /\ BucketsOf(spatialHash', id) = {}
  /\ id \notin DOMAIN collisionCache'

\* C26 (as stated): unregisterFurniture(id) removes id from the registry,
\* from every cell bucket and from the collision cache, and leaves the box
\* and the index cells of every other id unchanged; unregistering an id that
\* is not registered changes nothing.
C26_UnregisterFrame ==
  [][ ret'.op = "unregisterFurniture" =>
        /\ Removed(ret'.id)
        /\ OthersUntouched(ret'.id)
        /\ ret'.id \notin DOMAIN furnitureObjects =>
              UNCHANGED <<registryVars, backgroundVars, nextPlacementOffset,
                          throttleVars>> ]_vars

\* C26 (amended): as above, except that unregistering an id that is not
\* registered still drops the result cached for it and changes nothing
\* else; right after an unregisterFurniture of the same id it changes
\* nothing at all.
C26_UnregisterFrameDropsCache ==
  [][ ret'.op = "unregisterFurniture" =>
        /\ Removed(ret'.id)
        /\ OthersUntouched(ret'.id)
        /\ ret'.id \notin DOMAIN furnitureObjects =>
              /\ collisionCache' = MapDelete(collisionCache, {ret'.id})
              /\ UNCHANGED <<spatialHash, furnitureObjects, dirtyObjects,
                             backgroundVars, nextPlacementOffset, throttleVars>>
        /\ (ret.op = "unregisterFurniture" /\ ret.id = ret'.id) =>
              UNCHANGED <<registryVars, backgroundVars, nextPlacementOffset,
                          throttleVars>> ]_vars

\* a registered id with a cached result has been unregistered while another
\* id stays registered with a cached result of its own
C26_Witness ==
  /\ ret.op = "unregisterFurniture" /\ ret.known /\ ret.cached
  /\ \E o \in DOMAIN furnitureObjects : o \in DOMAIN collisionCache

\* an id that is not registered has been unregistered while a result was
\* cached for it
C26_WitnessUnknown ==
  ret.op = "unregisterFurniture" /\ ~ret.known /\ ret.cached

\* C27: registerFurniture is insert-or-replace.  After it the registry holds
\* the given box for the id, the id is indexed in exactly the cells the box
\* covers, no query over cells outside them returns it, and the other ids
\* keep their boxes and cells; registering the box the id already has leaves
\* the registry, the index and the dirty set as they were, and right after
\* the same registerFurniture call it leaves the cache as it was too.
C27_InsertOrReplace ==
  [][ ret'.op = "registerFurniture" =>
        LET id == ret'.id
            cells == getCellsForBox(spatialHash'.cellSize, ret'.box)
        IN  /\ id \in DOMAIN furnitureObjects'
            /\ furnitureObjects'[id] = ret'.box
            /\ id \in DOMAIN spatialHash'.objectCells
            /\ spatialHash'.objectCells[id] = cells
            /\ BucketsOf(spatialHash', id) = cells
            /\ \A q \in FurnitureBoxes :
                  getCellsForBox(spatialHash'.cellSize, q) \cap cells = {}
                    => id \notin query(spatialHash', q, NoId)
            /\ OthersUntouched(id)
            /\ StoredBox(id) = Some(ret'.box) =>
                  UNCHANGED <<spatialHash, furnitureObjects, dirtyObjects>>
            /\ (ret.op = "registerFurniture" /\ ret.id = id /\ ret.box = ret'.box) =>
                  UNCHANGED <<registryVars, backgroundVars, nextPlacementOffset,
                              throttleVars>> ]_vars

\* an id has been registered again with a box that leaves a cell of its
\* previous box, while another id is registered
C27_Witness ==
  /\ ret.op = "registerFurniture" /\ ret.moved
  /\ DOMAIN furnitureObjects \ {ret.id} # {}

-----------------------------------------------------------------------------
(* Setting the same surface again *)

-----------------------------------------------------------------------------
(* The order of the inside search *)

\* Candidate k of the inside search for a size on a surface: the horizontal
\* centroid at the minimum Y of the bounds for k = 0, then the 8 points of
\* ring 1, of ring 2 and of ring 3 by increasing angle, all at that Y.
InsideCandidate(bounds, size, k) ==
  LET c == getCenter(bounds)
      floorY == bounds.min[2]
      step == Max2(size[1], size[3]) + Unit \div 2
      ring == (k - 1) \div InsidePointsInRing + 1
      i == (k - 1) % InsidePointsInRing
      u == (240 * i) \div InsidePointsInRing
  IN  IF k = 0 THEN <<c[1], floorY, c[3]>>
      ELSE <<c[1] + Times(Cos(u), ring * step), floorY, c[3] + Times(Sin(u), ring * step)>>

InsideCandidates == 0..(InsideRings * InsidePointsInRing)

\* C30: findValidPositionInside returns the first candidate, in the order
\* centroid, ring 1, ring 2, ring 3, at which a box of the requested size
\* standing there overlaps no registered furniture, when there is one.
C30_FirstFreeCandidate ==
  (IsInside(ret) /\ backgroundMesh # None) =>
    LET bounds == backgroundMesh[1].bounds
        free == { k \in InsideCandidates :
                    FreeOfFurniture(StandingBox(InsideCandidate(bounds, ret.size, k),
                                                ret.size)) }
    IN  free # {} => ret.result = Some(InsideCandidate(bounds, ret.size, SetMin(free)))

-----------------------------------------------------------------------------
(* The end of a drag *)

\* C28: when a drag ends, either checkCollisionFull reported no collision
\* and the box registered for the item is the box at the dragged position,
\* or it reported a collision and the item is back at a position that passed
\* checkCollisionFull during this drag or at the position it had when the
\* drag began.
C28_CommitOrRevert ==
  ret.op = "handleDragEnd" =>
    /\ ~ret.hasCollision => StoredBox(ret.id) = Some(BoxAt(ret.dragged))
    /\ ret.hasCollision =>
         /\ component[1].group = ret.position
         /\ ret.position \in component[1].passed \cup {component[1].positionStart}

-----------------------------------------------------------------------------
(* The furniture history *)

\* C31: after a drag that ends without collision, the position of the item
\* in the present of the history is the dragged position.
C31_MoveNotLost ==
  (ret.op = "handleDragEnd" /\ ~ret.hasCollision) =>
     /\ Len(history.present) > 0
     /\ history.present[1].position = ret.dragged

IsSet(r) == r.op = "set"
Changes(r) == r.state # r.before.present

\* C32: a set whose state differs from the present clears the redo stack.
C32_SetClearsFuture ==
  (IsSet(ret) /\ Changes(ret)) => (Len(history.future) = 0 /\ ~canRedo(history))

\* C33: a set whose state differs from the present is recorded: canUndo is
\* true afterwards and one undo restores the present that held before it.
C33_SetIsRecorded ==
  (IsSet(ret) /\ Changes(ret)) =>
     (canUndo(history) /\ undo(history).present = ret.before.present)

\* C34: past holds at most maxHistory entries, past and future together
\* hold at most maxHistory entries, and a set that records into a full past
\* drops its oldest entry.
C34_Bounded ==
  /\ Len(history.past) <= history.maxHistory
  /\ Len(history.past) + Len(history.future) <= history.maxHistory
  /\ (IsSet(ret) /\ Changes(ret) /\ ~ret.before.isUndoRedoAction
        /\ Len(ret.before.past) = history.maxHistory)
       => history.past = Append(Tail(ret.before.past), ret.before.present)

\* a set has recorded into a full past of more than one entry
C34_Witness ==
  /\ IsSet(ret) /\ Changes(ret) /\ ~ret.before.isUndoRedoAction
  /\ Len(ret.before.past) = history.maxHistory
  /\ history.maxHistory > 1
  /\ ret.before.past[1] # ret.before.past[2]

SameStacks(a, b) == a.past = b.past /\ a.present = b.present /\ a.future = b.future

\* C35: redo after an undo, and undo after a redo, restore past, present
\* and future; undo with an empty past and redo with an empty future leave
\* the history unchanged.
C35_UndoRedoInverse ==
  /\ ret.op = "undo" =>
       IF Len(ret.before.past) = 0 THEN history = ret.before
       ELSE SameStacks(redo(history), ret.before)
  /\ ret.op = "redo" =>
       IF Len(ret.before.future) = 0 THEN history = ret.before
       ELSE SameStacks(undo(history), ret.before)

\* an undo has been made between a past and a future that both hold entries
C35_Witness ==
  /\ ret.op = "undo"
  /\ Len(ret.before.past) > 1 /\ Len(ret.before.future) > 0
  /\ history # ret.before

\* C36: a set whose state equals the present leaves past, present and
\* future, and so canUndo and canRedo, as they were.
C36_EqualSetIsNoOp ==
  (IsSet(ret) /\ ~Changes(ret)) =>
     /\ SameStacks(history, ret.before)
     /\ canUndo(history) = canUndo(ret.before)
     /\ canRedo(history) = canRedo(ret.before)

\* the present has been set again between a past and a future that both
\* hold entries
C36_Witness ==
  /\ IsSet(ret) /\ ~Changes(ret)
  /\ Len(history.past) > 0 /\ Len(history.future) > 0

-----------------------------------------------------------------------------
(* The two maps of the spatial index *)

BucketIds(h) == UNION { h.grid[c] : c \in DOMAIN h.grid }
RecordedCells(h) == UNION { h.objectCells[i] : i \in DOMAIN h.objectCells }
InBucket(h, id, c) == c \in DOMAIN h.grid /\ id \in h.grid[c]
InRecord(h, id, c) == id \in DOMAIN h.objectCells /\ c \in h.objectCells[id]

\* C37: after any sequence of insert, remove and clear, an id is in the
\* bucket of cell c iff c is in the cell set objectCells records for that id.
C37_GridMatchesObjectCells ==
  \A id \in Ids \cup BucketIds(spatialHash) \cup DOMAIN spatialHash.objectCells :
    \A c \in DOMAIN spatialHash.grid \cup RecordedCells(spatialHash) :
      InBucket(spatialHash, id, c) <=> InRecord(spatialHash, id, c)

\* an indexed id has been removed from a cell it shared with another id,
\* which stays in the bucket of that cell
C37_Witness ==
  /\ ret.op = "remove" /\ ret.known
  /\ ret.id \notin BucketIds(spatialHash)
  /\ \E id \in DOMAIN spatialHash.objectCells :
        /\ Cardinality(spatialHash.objectCells[id]) > 1
        /\ \A c \in spatialHash.objectCells[id] : InBucket(spatialHash, id, c)

====
